---- MODULE Spec2Model ----
(***************************************************************************)
(* Year-by-year retirement projection engine (RetirementCalculator) with   *)
(* the Canadian benefit rules and the provincial tax calculator.           *)
(*                                                                         *)
(* Numbers.  The Python code computes in binary floating point.  Here all  *)
(* money is an integer number of cents, a rate of return or an indexing    *)
(* rate is an integer number of basis points (1/10000), and a product      *)
(* "amount * fraction" is MulDiv(amount, numerator, denominator), rounded  *)
(* down to the cent.  Ages and years are integers as in the code.          *)
(***************************************************************************)
EXTENDS Integers, Sequences, FiniteSets, TLC

----------------------------------------------------------------------------
(* Bounds of the explored inputs *)

\* largest number of accumulation years of an explored plan
MaxAccumYears == 1
\* largest number of years between retirement age and life expectancy
MaxRetiredYears == 2

----------------------------------------------------------------------------
(* Arithmetic helpers *)

\* a whole-dollar amount, in cents
Dollars(d) == d * 100

Min(a, b) == IF a <= b THEN a ELSE b

Max(a, b) == IF a >= b THEN a ELSE b

\* floor(a * n / d) without leaving the 32-bit range for the explored amounts
MulDiv(a, n, d) == (a \div d) * n + ((a % d) * n) \div d

\* amount * (1 + rate), rate in basis points
Grow(amount, rate) == MulDiv(amount, 10000 + rate, 10000)

\* amount * (1 + rate) ** years, rate in basis points
RECURSIVE Compound(_, _, _)
Compound(amount, rate, years) ==
    IF years <= 0 THEN amount
    ELSE Compound(Grow(amount, rate), rate, years - 1)

----------------------------------------------------------------------------
(* CanadianRetirementRules: constants *)

RRIF_MINIMUM_START_AGE == 72
OAS_MAX_MONTHLY_2024 == 71334
OAS_MAX_MONTHLY_75_PLUS == 78467
OAS_CLAWBACK_THRESHOLD_2024 == 9099700
\* 0.15, in percent
OAS_CLAWBACK_RATE == 15
\* 0.006 and 0.007 per month, in thousandths
CPP_EARLY_REDUCTION_RATE == 6
CPP_LATE_INCREASE_RATE == 7
CPP_EARLIEST_AGE == 60
CPP_LATEST_AGE == 70
CPP_NORMAL_AGE == 65

\* RRIF_FACTORS, ages 55..95, in basis points
RRIF_FACTORS ==
    [age \in 55..95 |->
        << 286,  291,  297,  303,  309,
           315,  321,  327,  333,  340,
           347,  354,  361,  369,  377,
           385,  528,  540,  553,  567,
           582,  598,  617,  636,  658,
           685,  718,  757,  804,  863,
           938, 1033, 1157, 1330, 1533,
          1742, 1964, 2000, 2000, 2000,
          2000 >>[age - 54]]

(* CanadianRetirementRules: methods.  A method that can raise returns a     *)
(* record whose field raised tells whether it did.                          *)

\* the factor as the fraction num / den
get_rrif_minimum_factor_noraise(age) ==
    IF age <= 70 THEN [raised |-> FALSE, num |-> 1, den |-> 90 - age]
    ELSE IF age >= 95 THEN [raised |-> FALSE, num |-> 2000, den |-> 10000]
    ELSE [raised |-> FALSE,
          num |-> IF age \in DOMAIN RRIF_FACTORS THEN RRIF_FACTORS[age] ELSE 2000,
          den |-> 10000]

get_rrif_minimum_factor_table_below_71(age) ==
    IF age < 55 THEN [raised |-> TRUE, num |-> 0, den |-> 1]
    ELSE IF age >= 95 THEN [raised |-> FALSE, num |-> 2000, den |-> 10000]
    ELSE [raised |-> FALSE,
          num |-> IF age \in DOMAIN RRIF_FACTORS THEN RRIF_FACTORS[age] ELSE 2000,
          den |-> 10000]

get_rrif_minimum_factor(age) ==
    IF age < 55 THEN [raised |-> TRUE, num |-> 0, den |-> 1]
    ELSE IF age <= 70 THEN [raised |-> FALSE, num |-> 1, den |-> 90 - age]
    ELSE IF age >= 95 THEN [raised |-> FALSE, num |-> 2000, den |-> 10000]
    ELSE [raised |-> FALSE,
          num |-> IF age \in DOMAIN RRIF_FACTORS THEN RRIF_FACTORS[age] ELSE 2000,
          den |-> 10000]

calculate_rrif_minimum_withdrawal(balance, age) ==
    LET factor == get_rrif_minimum_factor(age)
    IN  IF factor.raised THEN [raised |-> TRUE, value |-> 0]
        ELSE [raised |-> FALSE, value |-> MulDiv(balance, factor.num, factor.den)]

calculate_cpp_adjustment_upper_unchecked(age, base_amount) ==
    IF age < CPP_EARLIEST_AGE THEN [raised |-> TRUE, value |-> 0]
    ELSE IF age < CPP_NORMAL_AGE
    THEN [raised |-> FALSE,
          value |-> MulDiv(base_amount,
                           1000 - ((CPP_NORMAL_AGE - age) * 12) * CPP_EARLY_REDUCTION_RATE,
                           1000)]
    ELSE IF age > CPP_NORMAL_AGE
    THEN [raised |-> FALSE,
          value |-> MulDiv(base_amount,
                           1000 + Min((age - CPP_NORMAL_AGE) * 12, 60) * CPP_LATE_INCREASE_RATE,
                           1000)]
    ELSE [raised |-> FALSE, value |-> base_amount]

calculate_cpp_adjustment_rates_swapped(age, base_amount) ==
    IF age < CPP_EARLIEST_AGE \/ age > CPP_LATEST_AGE
    THEN [raised |-> TRUE, value |-> 0]
    ELSE IF age < CPP_NORMAL_AGE
    THEN [raised |-> FALSE,
          value |-> MulDiv(base_amount,
                           1000 - ((CPP_NORMAL_AGE - age) * 12) * CPP_LATE_INCREASE_RATE,
                           1000)]
    ELSE IF age > CPP_NORMAL_AGE
    THEN [raised |-> FALSE,
          value |-> MulDiv(base_amount,
                           1000 + Min((age - CPP_NORMAL_AGE) * 12, 60) * CPP_EARLY_REDUCTION_RATE,
                           1000)]
    ELSE [raised |-> FALSE, value |-> base_amount]

calculate_cpp_adjustment(age, base_amount) ==
    IF age < CPP_EARLIEST_AGE \/ age > CPP_LATEST_AGE
    THEN [raised |-> TRUE, value |-> 0]
    ELSE IF age < CPP_NORMAL_AGE
    THEN [raised |-> FALSE,
          value |-> MulDiv(base_amount,
                           1000 - ((CPP_NORMAL_AGE - age) * 12) * CPP_EARLY_REDUCTION_RATE,
                           1000)]
    ELSE IF age > CPP_NORMAL_AGE
    THEN [raised |-> FALSE,
          value |-> MulDiv(base_amount,
                           1000 + Min((age - CPP_NORMAL_AGE) * 12, 60) * CPP_LATE_INCREASE_RATE,
                           1000)]
    ELSE [raised |-> FALSE, value |-> base_amount]

calculate_oas_clawback(annual_income, age) ==
    IF annual_income <= OAS_CLAWBACK_THRESHOLD_2024 THEN 0
    ELSE LET base_oas == IF age >= 75 THEN OAS_MAX_MONTHLY_75_PLUS * 12
                         ELSE OAS_MAX_MONTHLY_2024 * 12
             excess_income == annual_income - OAS_CLAWBACK_THRESHOLD_2024
             clawback == MulDiv(excess_income, OAS_CLAWBACK_RATE, 100)
         IN  Min(clawback, base_oas)

----------------------------------------------------------------------------
(* tax_calculator: Province enum, bracket tables, TaxCalculator *)

\* float('inf'): an upper limit above every explored income
INF == 2000000000

\* tax_calculator.Province: member name -> value
TaxProvince ==
    [ONTARIO |-> "Ontario", BRITISH_COLUMBIA |-> "British Columbia",
     ALBERTA |-> "Alberta", QUEBEC |-> "Quebec", MANITOBA |-> "Manitoba",
     SASKATCHEWAN |-> "Saskatchewan", NOVA_SCOTIA |-> "Nova Scotia",
     NEW_BRUNSWICK |-> "New Brunswick",
     PRINCE_EDWARD_ISLAND |-> "Prince Edward Island",
     NEWFOUNDLAND_AND_LABRADOR |-> "Newfoundland and Labrador"]

TaxProvinceValues == {TaxProvince[n] : n \in DOMAIN TaxProvince}

\* canadian_rules.Province: the values a plan's province field can take
PlanProvinceValues ==
    {"Ontario", "British Columbia", "Alberta", "Quebec", "Manitoba",
     "Saskatchewan", "Nova Scotia", "New Brunswick", "Prince Edward Island",
     "Newfoundland and Labrador", "Yukon", "Northwest Territories", "Nunavut"}

\* province.upper().replace(" ", "_") on those values
UpperUnderscore ==
    [v \in PlanProvinceValues |->
        CASE v = "Ontario" -> "ONTARIO"
          [] v = "British Columbia" -> "BRITISH_COLUMBIA"
          [] v = "Alberta" -> "ALBERTA"
          [] v = "Quebec" -> "QUEBEC"
          [] v = "Manitoba" -> "MANITOBA"
          [] v = "Saskatchewan" -> "SASKATCHEWAN"
          [] v = "Nova Scotia" -> "NOVA_SCOTIA"
          [] v = "New Brunswick" -> "NEW_BRUNSWICK"
          [] v = "Prince Edward Island" -> "PRINCE_EDWARD_ISLAND"
          [] v = "Newfoundland and Labrador" -> "NEWFOUNDLAND_AND_LABRADOR"
          [] v = "Yukon" -> "YUKON"
          [] v = "Northwest Territories" -> "NORTHWEST_TERRITORIES"
          [] v = "Nunavut" -> "NUNAVUT"]

\* brackets are <<upper limit in cents, marginal rate in basis points>>
FEDERAL_BRACKETS ==
    << <<Dollars(55867), 1500>>, <<Dollars(111733), 2050>>,
       <<Dollars(173205), 2600>>, <<Dollars(246752), 2900>>, <<INF, 3300>> >>

FEDERAL_BASIC_PERSONAL_AMOUNT == 1500000

PROVINCIAL_BRACKETS ==
    [v \in TaxProvinceValues |->
        CASE v = "Ontario" ->
               << <<Dollars(49231), 505>>, <<Dollars(98463), 915>>,
                  <<Dollars(150000), 1116>>, <<Dollars(220000), 1216>>,
                  <<INF, 1316>> >>
          [] v = "British Columbia" ->
               << <<Dollars(45654), 506>>, <<Dollars(91310), 770>>,
                  <<Dollars(104835), 1050>>, <<Dollars(127299), 1229>>,
                  <<Dollars(172602), 1470>>, <<Dollars(240716), 1680>>,
                  <<INF, 2050>> >>
          [] v = "Alberta" ->
               << <<Dollars(142292), 1000>>, <<Dollars(170751), 1200>>,
                  <<Dollars(227668), 1300>>, <<Dollars(341502), 1400>>,
                  <<INF, 1500>> >>
          [] v = "Quebec" ->
               << <<Dollars(49275), 1500>>, <<Dollars(98540), 2000>>,
                  <<Dollars(119910), 2400>>, <<INF, 2575>> >>
          [] v = "Manitoba" ->
               << <<Dollars(36842), 1080>>, <<Dollars(79625), 1275>>,
                  <<INF, 1740>> >>
          [] v = "Saskatchewan" ->
               << <<Dollars(49720), 1050>>, <<Dollars(142058), 1250>>,
                  <<INF, 1450>> >>
          [] v = "Nova Scotia" ->
               << <<Dollars(29590), 879>>, <<Dollars(59180), 1495>>,
                  <<Dollars(93000), 1667>>, <<Dollars(150000), 1750>>,
                  <<INF, 2100>> >>
          [] v = "New Brunswick" ->
               << <<Dollars(47715), 940>>, <<Dollars(95431), 1400>>,
                  <<Dollars(176756), 1600>>, <<INF, 1950>> >>
          [] v = "Prince Edward Island" ->
               << <<Dollars(31984), 980>>, <<Dollars(63969), 1380>>,
                  <<INF, 1670>> >>
          [] v = "Newfoundland and Labrador" ->
               << <<Dollars(41457), 870>>, <<Dollars(82913), 1450>>,
                  <<Dollars(148027), 1580>>, <<Dollars(207239), 1730>>,
                  <<Dollars(264750), 1830>>, <<Dollars(529500), 1930>>,
                  <<Dollars(1059000), 1980>>, <<INF, 2080>> >>]

PROVINCIAL_BASIC_AMOUNTS ==
    [v \in TaxProvinceValues |->
        CASE v = "Ontario" -> Dollars(11865)
          [] v = "British Columbia" -> Dollars(12580)
          [] v = "Alberta" -> Dollars(21885)
          [] v = "Quebec" -> Dollars(17183)
          [] v = "Manitoba" -> Dollars(15000)
          [] v = "Saskatchewan" -> Dollars(17661)
          [] v = "Nova Scotia" -> Dollars(8481)
          [] v = "New Brunswick" -> Dollars(12458)
          [] v = "Prince Edward Island" -> Dollars(12000)
          [] v = "Newfoundland and Labrador" -> Dollars(10382)]

\* the portion in the bracket of the income only ("tax =" for "tax +=")
RECURSIVE BracketTaxFrom_not_accumulated(_, _, _, _)
BracketTaxFrom_not_accumulated(income, brackets, i, previous_limit) ==
    IF i > Len(brackets) THEN 0
    ELSE IF income <= brackets[i][1]
         THEN MulDiv(income - previous_limit, brackets[i][2], 10000)
         ELSE BracketTaxFrom_not_accumulated(income, brackets, i + 1, brackets[i][1])

\* the loop of _calculate_bracket_tax from bracket i on
RECURSIVE BracketTaxFrom(_, _, _, _)
BracketTaxFrom(income, brackets, i, previous_limit) ==
    IF i > Len(brackets) THEN 0
    ELSE LET limit == brackets[i][1]
             rate == brackets[i][2]
         IN  IF income <= limit
             THEN MulDiv(income - previous_limit, rate, 10000)
             ELSE MulDiv(limit - previous_limit, rate, 10000)
                  + BracketTaxFrom(income, brackets, i + 1, limit)

_calculate_bracket_tax(income, brackets) ==
    IF income <= 0 THEN 0 ELSE BracketTaxFrom(income, brackets, 1, 0)

\* TaxCalculator.calculate_tax: the total_tax of the breakdown; a province
\* without tables gets the defaults of the two .get() calls
calculate_tax(taxable_income, province) ==
    IF taxable_income <= 0 THEN 0
    ELSE LET federal_taxable == Max(0, taxable_income - FEDERAL_BASIC_PERSONAL_AMOUNT)
             provincial_basic ==
                 IF province \in DOMAIN PROVINCIAL_BASIC_AMOUNTS
                 THEN PROVINCIAL_BASIC_AMOUNTS[province] ELSE Dollars(10000)
             provincial_taxable == Max(0, taxable_income - provincial_basic)
             federal_tax == _calculate_bracket_tax(federal_taxable, FEDERAL_BRACKETS)
             provincial_brackets ==
                 IF province \in DOMAIN PROVINCIAL_BRACKETS
                 THEN PROVINCIAL_BRACKETS[province] ELSE << <<INF, 1000>> >>
             provincial_tax == _calculate_bracket_tax(provincial_taxable, provincial_brackets)
         IN  federal_tax + provincial_tax

\* calculate_canadian_tax: Province(province), on ValueError
\* Province[province.upper().replace(" ", "_")], whose KeyError propagates
calculate_canadian_tax(taxable_income, province) ==
    IF province \in TaxProvinceValues
    THEN [raised |-> FALSE, total_tax |-> calculate_tax(taxable_income, province)]
    ELSE IF UpperUnderscore[province] \in DOMAIN TaxProvince
    THEN [raised |-> FALSE,
          total_tax |-> calculate_tax(taxable_income, TaxProvince[UpperUnderscore[province]])]
    ELSE [raised |-> TRUE, total_tax |-> 0]

----------------------------------------------------------------------------
(* RetirementCalculator: helpers of calculate_plan *)

\* _calculate_taxes; the mode is "simplified" or "accurate"
_calculate_taxes(taxable_income, plan) ==
    IF plan.tax_calculation_mode = "simplified"
    THEN [raised |-> FALSE, value |-> MulDiv(taxable_income, 25, 100)]
    ELSE IF taxable_income <= 0 THEN [raised |-> FALSE, value |-> 0]
    ELSE LET tax_result == calculate_canadian_tax(taxable_income, plan.province)
         IN  [raised |-> tax_result.raised, value |-> tax_result.total_tax]

_calculate_pension_for_year_end_exclusive(year, pension, current_year) ==
    IF year < pension.start_year THEN 0
    ELSE IF pension.end_year # 0 /\ year >= pension.end_year THEN 0
    ELSE Compound(pension.monthly_amount, pension.indexing_rate,
                  year - pension.start_year) * 12

\* _calculate_pension_for_year; an absent end_year (None) is 0, which the
\* code's truth test treats alike
_calculate_pension_for_year(year, pension, current_year) ==
    IF year < pension.start_year THEN 0
    ELSE IF pension.end_year # 0 /\ year > pension.end_year THEN 0
    ELSE Compound(pension.monthly_amount, pension.indexing_rate,
                  year - pension.start_year) * 12

\* the loop over plan_input.pensions
RECURSIVE PensionIncomeOf(_, _, _)
PensionIncomeOf(pensions, plan, current_age) ==
    IF pensions = <<>> THEN 0
    ELSE LET pension == Head(pensions)
             projection_year == pension.start_year + (current_age - plan.current_age)
         IN  _calculate_pension_for_year(projection_year, pension, pension.start_year)
             + PensionIncomeOf(Tail(pensions), plan, current_age)

\* the mandatory RRIF withdrawal of a retirement year
MandatoryWithdrawal_factor_at_100(plan, current_age, rrsp) ==
    IF current_age >= RRIF_MINIMUM_START_AGE
    THEN LET spouse_current_age == plan.spouse_age + (current_age - plan.current_age)
             withdrawal_age ==
                 IF plan.has_spouse /\ plan.spouse_age # 0
                 THEN Min(current_age, spouse_current_age) ELSE current_age
             w == calculate_rrif_minimum_withdrawal(rrsp, withdrawal_age)
         IN  [raised |-> w.raised, value |-> w.value,
              withdrawal_age |-> withdrawal_age]
    ELSE [raised |-> FALSE, value |-> 0, withdrawal_age |-> current_age]

MandatoryWithdrawal_spouse_age_not_projected(plan, current_age, rrsp) ==
    IF current_age >= RRIF_MINIMUM_START_AGE
    THEN IF current_age >= 100
         THEN [raised |-> FALSE, value |-> rrsp, withdrawal_age |-> current_age]
         ELSE LET spouse_current_age == plan.spouse_age
                  withdrawal_age ==
                      IF plan.has_spouse /\ plan.spouse_age # 0
                      THEN Min(current_age, spouse_current_age) ELSE current_age
                  w == calculate_rrif_minimum_withdrawal(rrsp, withdrawal_age)
              IN  [raised |-> w.raised, value |-> w.value,
                   withdrawal_age |-> withdrawal_age]
    ELSE [raised |-> FALSE, value |-> 0, withdrawal_age |-> current_age]

MandatoryWithdrawal_from_71(plan, current_age, rrsp) ==
    IF current_age >= RRIF_MINIMUM_START_AGE - 1
    THEN IF current_age >= 100
         THEN [raised |-> FALSE, value |-> rrsp, withdrawal_age |-> current_age]
         ELSE LET spouse_current_age == plan.spouse_age + (current_age - plan.current_age)
                  withdrawal_age ==
                      IF plan.has_spouse /\ plan.spouse_age # 0
                      THEN Min(current_age, spouse_current_age) ELSE current_age
                  w == calculate_rrif_minimum_withdrawal(rrsp, withdrawal_age)
              IN  [raised |-> w.raised, value |-> w.value,
                   withdrawal_age |-> withdrawal_age]
    ELSE [raised |-> FALSE, value |-> 0, withdrawal_age |-> current_age]

MandatoryWithdrawal(plan, current_age, rrsp) ==
    IF current_age >= RRIF_MINIMUM_START_AGE
    THEN IF current_age >= 100
         THEN [raised |-> FALSE, value |-> rrsp, withdrawal_age |-> current_age]
         ELSE LET spouse_current_age == plan.spouse_age + (current_age - plan.current_age)
                  withdrawal_age ==
                      IF plan.has_spouse /\ plan.spouse_age # 0
                      THEN Min(current_age, spouse_current_age) ELSE current_age
                  w == calculate_rrif_minimum_withdrawal(rrsp, withdrawal_age)
              IN  [raised |-> w.raised, value |-> w.value,
                   withdrawal_age |-> withdrawal_age]
    ELSE [raised |-> FALSE, value |-> 0, withdrawal_age |-> current_age]

\* OAS after clawback
OasIncome_clawed_back_on_itself(plan, current_age, estimated_income) ==
    IF current_age >= plan.oas_start_age
    THEN LET monthly_oas == IF current_age >= 75 THEN OAS_MAX_MONTHLY_75_PLUS
                            ELSE OAS_MAX_MONTHLY_2024
             annual_oas == monthly_oas * 12
             clawback == calculate_oas_clawback(estimated_income + annual_oas,
                                                current_age)
         IN  Max(0, annual_oas - clawback)
    ELSE 0

OasIncome(plan, current_age, estimated_income) ==
    IF current_age >= plan.oas_start_age
    THEN LET monthly_oas == IF current_age >= 75 THEN OAS_MAX_MONTHLY_75_PLUS
                            ELSE OAS_MAX_MONTHLY_2024
             annual_oas == monthly_oas * 12
             clawback == calculate_oas_clawback(estimated_income, current_age)
         IN  Max(0, annual_oas - clawback)
    ELSE 0

\* min(need, balance): the amount taken from an account
Withdrawable_unclamped(need, balance) == need

Withdrawable(need, balance) == Min(need, balance)

\* STEP 1: cover the spending shortfall, TFSA, then non-registered, then RRSP
CoverSpending_rrsp_first(shortfall, rrsp, tfsa, non_reg) ==
    LET rrsp_w == Withdrawable(shortfall, rrsp)
        s1 == shortfall - rrsp_w
        tfsa_w == IF s1 > 0 THEN Withdrawable(s1, tfsa) ELSE 0
        s2 == s1 - tfsa_w
        non_reg_w == IF s2 > 0 THEN Withdrawable(s2, non_reg) ELSE 0
    IN  [tfsa_withdrawal |-> tfsa_w, non_reg_withdrawal |-> non_reg_w,
         rrsp_additional_withdrawal |-> rrsp_w,
         rrsp |-> rrsp - rrsp_w, tfsa |-> tfsa - tfsa_w,
         non_reg |-> non_reg - non_reg_w, shortfall |-> s2 - non_reg_w]

CoverSpending(shortfall, rrsp, tfsa, non_reg) ==
    LET tfsa_w == Withdrawable(shortfall, tfsa)
        s1 == shortfall - tfsa_w
        non_reg_w == IF s1 > 0 THEN Withdrawable(s1, non_reg) ELSE 0
        s2 == s1 - non_reg_w
        rrsp_w == IF s2 > 0 THEN Withdrawable(s2, rrsp) ELSE 0
    IN  [tfsa_withdrawal |-> tfsa_w, non_reg_withdrawal |-> non_reg_w,
         rrsp_additional_withdrawal |-> rrsp_w,
         rrsp |-> rrsp - rrsp_w, tfsa |-> tfsa - tfsa_w,
         non_reg |-> non_reg - non_reg_w, shortfall |-> s2 - rrsp_w]

\* the warning strings, as records of what they say
InsufficientFunds(year, current_age, shortfall) ==
    [kind |-> "insufficient_funds", year |-> year, age |-> current_age,
     amount |-> shortfall, label |-> ""]

PropertySold(year, current_age, sale_value, property_type) ==
    [kind |-> "property_sold", year |-> year, age |-> current_age,
     amount |-> sale_value, label |-> property_type]

\* "if shortfall > 100: warnings.append(...)": the warnings to append
ShortfallWarnings_inclusive(year, current_age, shortfall) ==
    IF shortfall >= Dollars(100)
    THEN << InsufficientFunds(year, current_age, shortfall) >> ELSE <<>>

ShortfallWarnings(year, current_age, shortfall) ==
    IF shortfall > Dollars(100)
    THEN << InsufficientFunds(year, current_age, shortfall) >> ELSE <<>>

\* STEP 3: further withdrawals to cover the tax bill
CoverTaxes(taxes_estimated, tfsa, non_reg) ==
    IF taxes_estimated > 0
    THEN LET tfsa_w == IF tfsa > 0 THEN Withdrawable(taxes_estimated, tfsa) ELSE 0
             need1 == taxes_estimated - tfsa_w
             non_reg_w == IF need1 > 0 /\ non_reg > 0
                          THEN Withdrawable(need1, non_reg) ELSE 0
         IN  [tfsa_tax_withdrawal |-> tfsa_w, non_reg_tax_withdrawal |-> non_reg_w,
              tfsa |-> tfsa - tfsa_w, non_reg |-> non_reg - non_reg_w,
              tax_coverage_needed |-> need1 - non_reg_w]
    ELSE [tfsa_tax_withdrawal |-> 0, non_reg_tax_withdrawal |-> 0,
          tfsa |-> tfsa, non_reg |-> non_reg, tax_coverage_needed |-> 0]

\* the loop over real_estate_holdings: the proceeds and the messages
RECURSIVE SellRealEstate(_, _, _, _)
SellRealEstate(holdings, plan, year, current_age) ==
    IF holdings = <<>> THEN [proceeds |-> 0, messages |-> <<>>]
    ELSE LET property == Head(holdings)
             rest == SellRealEstate(Tail(holdings), plan, year, current_age)
         IN  IF property.sale_age > 0 /\ current_age = property.sale_age
             THEN LET years_held == current_age - plan.current_age
                      sale_value == Compound(property.value, property.real_return, years_held)
                  IN  [proceeds |-> sale_value + rest.proceeds,
                       messages |-> << PropertySold(year, current_age, sale_value,
                                                    property.property_type) >>
                                    \o rest.messages]
             ELSE rest

----------------------------------------------------------------------------
(* RetirementCalculator.calculate_plan: one iteration of the year loop *)

\* the values an iteration leaves in the loop's local variables
Locals(year, current_age, phase, w_age, mandatory, pension_income, step1, cover, taxable_income, taxcover, sale, start_rrsp, start_tfsa, start_non_reg) ==
    [year |-> year, age |-> current_age, phase |-> phase,
     withdrawal_age |-> w_age,
     mandatory_withdrawal |-> mandatory,
     pension_income |-> pension_income,
     spending_shortfall |-> step1,
     tfsa_withdrawal |-> cover.tfsa_withdrawal,
     non_reg_withdrawal |-> cover.non_reg_withdrawal,
     rrsp_additional_withdrawal |-> cover.rrsp_additional_withdrawal,
     shortfall |-> cover.shortfall,
     rrsp_after_spending |-> cover.rrsp,
     tfsa_after_spending |-> cover.tfsa,
     non_reg_after_spending |-> cover.non_reg,
     taxable_income |-> taxable_income,
     tfsa_tax_withdrawal |-> taxcover.tfsa_tax_withdrawal,
     non_reg_tax_withdrawal |-> taxcover.non_reg_tax_withdrawal,
     tax_coverage_needed |-> taxcover.tax_coverage_needed,
     sale_proceeds |-> sale,
     start_rrsp |-> start_rrsp, start_tfsa |-> start_tfsa,
     start_non_reg |-> start_non_reg]

NoCover(rrsp, tfsa, non_reg) ==
    [tfsa_withdrawal |-> 0, non_reg_withdrawal |-> 0,
     rrsp_additional_withdrawal |-> 0,
     rrsp |-> rrsp, tfsa |-> tfsa, non_reg |-> non_reg, shortfall |-> 0]

NoTaxCover(tfsa, non_reg) ==
    [tfsa_tax_withdrawal |-> 0, non_reg_tax_withdrawal |-> 0,
     tfsa |-> tfsa, non_reg |-> non_reg, tax_coverage_needed |-> 0]

YearlyProjection_year_from_one(year, age, rrsp, tfsa, non_reg, rrif_withdrawal, cpp_income, oas_income, other_withdrawals, gross_income, taxes_estimated, net_income, spending) ==
    [year |-> year + 1, age |-> age,
     rrsp_rrif_balance |-> rrsp, tfsa_balance |-> tfsa,
     non_registered_balance |-> non_reg,
     total_balance |-> rrsp + tfsa + non_reg,
     rrif_withdrawal |-> rrif_withdrawal, cpp_income |-> cpp_income,
     oas_income |-> oas_income, other_withdrawals |-> other_withdrawals,
     gross_income |-> gross_income, taxes_estimated |-> taxes_estimated,
     net_income |-> net_income, spending |-> spending]

YearlyProjection(year, age, rrsp, tfsa, non_reg, rrif_withdrawal, cpp_income, oas_income, other_withdrawals, gross_income, taxes_estimated, net_income, spending) ==
    [year |-> year, age |-> age,
     rrsp_rrif_balance |-> rrsp, tfsa_balance |-> tfsa,
     non_registered_balance |-> non_reg,
     total_balance |-> rrsp + tfsa + non_reg,
     rrif_withdrawal |-> rrif_withdrawal, cpp_income |-> cpp_income,
     oas_income |-> oas_income, other_withdrawals |-> other_withdrawals,
     gross_income |-> gross_income, taxes_estimated |-> taxes_estimated,
     net_income |-> net_income, spending |-> spending]

AccumulationYear_contribution_after_returns(plan, f) ==
    LET current_age == plan.current_age + f.year
        annual_contribution == plan.monthly_contribution * 12
        rrsp_contribution == MulDiv(annual_contribution, 70, 100)
        tfsa_contribution == MulDiv(annual_contribution, 30, 100)
        rrsp == Grow(f.rrsp_balance, plan.rrsp_real_return) + rrsp_contribution
        tfsa == Grow(f.tfsa_balance, plan.tfsa_real_return) + tfsa_contribution
        non_reg == Grow(f.non_reg_balance, plan.non_reg_real_return)
    IN  [raised |-> FALSE, error |-> "",
         rrsp_balance |-> rrsp, tfsa_balance |-> tfsa, non_reg_balance |-> non_reg,
         total_contributions |-> f.total_contributions + annual_contribution,
         warnings |-> <<>>,
         projection |-> YearlyProjection(f.year, current_age, rrsp, tfsa, non_reg,
                                         0, 0, 0, 0, 0, 0, 0, 0),
         locals |-> Locals(f.year, current_age, "accumulation", current_age, 0, 0, 0,
                           NoCover(f.rrsp_balance, f.tfsa_balance, f.non_reg_balance),
                           0, NoTaxCover(f.tfsa_balance, f.non_reg_balance), 0,
                           f.rrsp_balance, f.tfsa_balance, f.non_reg_balance)]

\* the accumulation branch; f is the frame: year, the three balances,
\* total_contributions and adjusted_cpp
AccumulationYear(plan, f) ==
    LET current_age == plan.current_age + f.year
        annual_contribution == plan.monthly_contribution * 12
        rrsp_contribution == MulDiv(annual_contribution, 70, 100)
        tfsa_contribution == MulDiv(annual_contribution, 30, 100)
        rrsp == Grow(f.rrsp_balance + rrsp_contribution, plan.rrsp_real_return)
        tfsa == Grow(f.tfsa_balance + tfsa_contribution, plan.tfsa_real_return)
        non_reg == Grow(f.non_reg_balance, plan.non_reg_real_return)
    IN  [raised |-> FALSE, error |-> "",
         rrsp_balance |-> rrsp, tfsa_balance |-> tfsa, non_reg_balance |-> non_reg,
         total_contributions |-> f.total_contributions + annual_contribution,
         warnings |-> <<>>,
         projection |-> YearlyProjection(f.year, current_age, rrsp, tfsa, non_reg,
                                         0, 0, 0, 0, 0, 0, 0, 0),
         locals |-> Locals(f.year, current_age, "accumulation", current_age, 0, 0, 0,
                           NoCover(f.rrsp_balance, f.tfsa_balance, f.non_reg_balance),
                           0, NoTaxCover(f.tfsa_balance, f.non_reg_balance), 0,
                           f.rrsp_balance, f.tfsa_balance, f.non_reg_balance)]

(* The retirement branch, lines 147-298, in the order of the code.  Each   *)
(* stage hands what it computed to the next one.  When a callee raises,    *)
(* the call is abandoned: the frame's partial updates are never seen, so   *)
(* the record keeps the frame as it was at the start of the iteration.     *)

RaisedIteration(f, current_age, w_age, error) ==
    [raised |-> TRUE, error |-> error,
     rrsp_balance |-> f.rrsp_balance, tfsa_balance |-> f.tfsa_balance,
     non_reg_balance |-> f.non_reg_balance,
     total_contributions |-> f.total_contributions,
     warnings |-> <<>>,
     projection |-> YearlyProjection(f.year, current_age, 0, 0, 0, 0, 0, 0, 0, 0, 0, 0, 0),
     locals |-> Locals(f.year, current_age, "retirement", w_age, 0, 0, 0,
                       NoCover(0, 0, 0), 0, NoTaxCover(0, 0), 0,
                       f.rrsp_balance, f.tfsa_balance, f.non_reg_balance)]

AfterTaxes_sale_before_returns(plan, f, inc, cover, new_warnings, taxable_income, taxes_estimated, taxcover, sale) ==
    LET other_withdrawals == cover.tfsa_withdrawal + cover.non_reg_withdrawal
                             + cover.rrsp_additional_withdrawal
                             + taxcover.tfsa_tax_withdrawal
                             + taxcover.non_reg_tax_withdrawal
        net_income == inc.gross_income + other_withdrawals - taxes_estimated
        rrsp == Grow(cover.rrsp, plan.rrsp_real_return)
        tfsa == Grow(taxcover.tfsa, plan.tfsa_real_return)
        non_reg == Grow(taxcover.non_reg + sale.proceeds, plan.non_reg_real_return)
    IN  [raised |-> FALSE, error |-> "",
         rrsp_balance |-> rrsp, tfsa_balance |-> tfsa, non_reg_balance |-> non_reg,
         total_contributions |-> f.total_contributions,
         warnings |-> new_warnings \o sale.messages,
         projection |->
             YearlyProjection(f.year, inc.age, rrsp, tfsa, non_reg,
                              inc.mandatory_withdrawal + cover.rrsp_additional_withdrawal,
                              inc.cpp_income, inc.oas_income, other_withdrawals,
                              inc.gross_income, taxes_estimated, net_income,
                              plan.desired_annual_spending),
         locals |-> Locals(f.year, inc.age, "retirement", inc.withdrawal_age,
                           inc.mandatory_withdrawal, inc.pension_income,
                           inc.spending_shortfall, cover, taxable_income,
                           taxcover, sale.proceeds,
                           f.rrsp_balance, f.tfsa_balance, f.non_reg_balance)]

\* lines 263-298: net income, returns, property sales, the projection
AfterTaxes(plan, f, inc, cover, new_warnings, taxable_income, taxes_estimated, taxcover, sale) ==
    LET other_withdrawals == cover.tfsa_withdrawal + cover.non_reg_withdrawal
                             + cover.rrsp_additional_withdrawal
                             + taxcover.tfsa_tax_withdrawal
                             + taxcover.non_reg_tax_withdrawal
        net_income == inc.gross_income + other_withdrawals - taxes_estimated
        rrsp == Grow(cover.rrsp, plan.rrsp_real_return)
        tfsa == Grow(taxcover.tfsa, plan.tfsa_real_return)
        non_reg == Grow(taxcover.non_reg, plan.non_reg_real_return) + sale.proceeds
    IN  [raised |-> FALSE, error |-> "",
         rrsp_balance |-> rrsp, tfsa_balance |-> tfsa, non_reg_balance |-> non_reg,
         total_contributions |-> f.total_contributions,
         warnings |-> new_warnings \o sale.messages,
         projection |->
             YearlyProjection(f.year, inc.age, rrsp, tfsa, non_reg,
                              inc.mandatory_withdrawal + cover.rrsp_additional_withdrawal,
                              inc.cpp_income, inc.oas_income, other_withdrawals,
                              inc.gross_income, taxes_estimated, net_income,
                              plan.desired_annual_spending),
         locals |-> Locals(f.year, inc.age, "retirement", inc.withdrawal_age,
                           inc.mandatory_withdrawal, inc.pension_income,
                           inc.spending_shortfall, cover, taxable_income,
                           taxcover, sale.proceeds,
                           f.rrsp_balance, f.tfsa_balance, f.non_reg_balance)]

\* lines 243-261: STEP 3, given the tax
AfterTaxEstimate(plan, f, inc, cover, new_warnings, taxable_income, tax) ==
    IF tax.raised
    THEN RaisedIteration(f, inc.age, inc.withdrawal_age, "KeyError: province")
    ELSE AfterTaxes(plan, f, inc, cover, new_warnings, taxable_income, tax.value,
                    CoverTaxes(tax.value, cover.tfsa, cover.non_reg),
                    SellRealEstate(plan.real_estate_holdings, plan, f.year, inc.age))

\* lines 230-241: the shortfall warning, then STEP 2
AfterSpending_all_withdrawals_taxable(plan, f, inc, cover) ==
    AfterTaxEstimate(plan, f, inc, cover,
        IF inc.gross_income < plan.desired_annual_spending
        THEN ShortfallWarnings(f.year, inc.age, cover.shortfall) ELSE <<>>,
        inc.gross_income + cover.tfsa_withdrawal + cover.non_reg_withdrawal
            + cover.rrsp_additional_withdrawal,
        _calculate_taxes(inc.gross_income + cover.tfsa_withdrawal
                            + cover.non_reg_withdrawal
                            + cover.rrsp_additional_withdrawal, plan))

AfterSpending(plan, f, inc, cover) ==
    AfterTaxEstimate(plan, f, inc, cover,
        IF inc.gross_income < plan.desired_annual_spending
        THEN ShortfallWarnings(f.year, inc.age, cover.shortfall) ELSE <<>>,
        inc.gross_income + cover.rrsp_additional_withdrawal,
        _calculate_taxes(inc.gross_income + cover.rrsp_additional_withdrawal, plan))

\* lines 202-228: STEP 1; inc holds the income of the year, rrsp the
\* balance left by the mandatory withdrawal
AfterIncome(plan, f, inc, rrsp) ==
    AfterSpending(plan, f, inc,
        IF inc.gross_income < plan.desired_annual_spending
        THEN CoverSpending(inc.spending_shortfall, rrsp, f.tfsa_balance, f.non_reg_balance)
        ELSE NoCover(rrsp, f.tfsa_balance, f.non_reg_balance))

\* lines 199-206: gross income and the spending shortfall
IncomeOf(current_age, w_age, mandatory, cpp_income, pension_income, oas_income, adjusted_spending) ==
    [age |-> current_age, withdrawal_age |-> w_age,
     mandatory_withdrawal |-> mandatory,
     cpp_income |-> cpp_income, pension_income |-> pension_income,
     oas_income |-> oas_income,
     gross_income |-> mandatory + cpp_income + oas_income + pension_income,
     spending_shortfall |->
         IF mandatory + cpp_income + oas_income + pension_income < adjusted_spending
         THEN adjusted_spending - (mandatory + cpp_income + oas_income + pension_income)
         ELSE 0]

\* lines 185-200: OAS on the estimated income
AfterStreams(plan, f, current_age, w_age, mandatory, cpp_income, pension_income) ==
    AfterIncome(plan, f,
        IncomeOf(current_age, w_age, mandatory, cpp_income, pension_income,
                 OasIncome(plan, current_age, mandatory + cpp_income + pension_income),
                 plan.desired_annual_spending),
        f.rrsp_balance - mandatory)

\* lines 165-183: the debit of the mandatory withdrawal, CPP, the pensions
AfterMandatory_cpp_after_start_age(plan, f, current_age, mw) ==
    IF mw.raised
    THEN RaisedIteration(f, current_age, mw.withdrawal_age, "ValueError: RRIF age")
    ELSE AfterStreams(plan, f, current_age, mw.withdrawal_age, mw.value,
                      IF current_age > plan.cpp_start_age
                      THEN f.adjusted_cpp * 12 ELSE 0,
                      PensionIncomeOf(plan.pensions, plan, current_age))

AfterMandatory(plan, f, current_age, mw) ==
    IF mw.raised
    THEN RaisedIteration(f, current_age, mw.withdrawal_age, "ValueError: RRIF age")
    ELSE AfterStreams(plan, f, current_age, mw.withdrawal_age, mw.value,
                      IF current_age >= plan.cpp_start_age
                      THEN f.adjusted_cpp * 12 ELSE 0,
                      PensionIncomeOf(plan.pensions, plan, current_age))

RetirementYear(plan, f) ==
    AfterMandatory(plan, f, plan.current_age + f.year,
                   MandatoryWithdrawal(plan, plan.current_age + f.year, f.rrsp_balance))

\* one pass through the body of "for year in range(total_years + 1)"
Iteration_retired_in_retirement_year_only(plan, f) ==
    IF plan.current_age + f.year = plan.retirement_age
    THEN RetirementYear(plan, f) ELSE AccumulationYear(plan, f)

Iteration(plan, f) ==
    IF plan.current_age + f.year >= plan.retirement_age
    THEN RetirementYear(plan, f) ELSE AccumulationYear(plan, f)

\* the recommendations, by their subject
Recommendations(plan, final_balance) ==
    << IF final_balance < 0 THEN "runs out of money"
       ELSE IF final_balance < Dollars(50000) THEN "very low final balance"
       ELSE IF final_balance > Dollars(1000000) THEN "strong financial position"
       ELSE "sustainable" >>
    \o (IF plan.current_age <= 71 /\ plan.retirement_age <= 71
        THEN << "RRIF conversion reminder" >> ELSE <<>>)
    \o (IF plan.cpp_start_age < 65 THEN << "early CPP reduces benefits" >>
        ELSE IF plan.cpp_start_age > 65 THEN << "late CPP increases benefits" >>
        ELSE <<>>)

\* "success = final_balance >= 0 and len(warnings) == 0"
Success(final_balance, ws) == final_balance >= 0 /\ Len(ws) = 0

\* the RetirementPlanOutput built after the loop
RetirementPlanOutput(plan, projs, contributions, ws) ==
    LET final_balance == projs[Len(projs)].total_balance
    IN  [input_summary |-> plan,
         years_to_retirement |-> plan.retirement_age - plan.current_age,
         retirement_duration |-> plan.life_expectancy - plan.retirement_age,
         total_years |-> plan.life_expectancy - plan.current_age,
         projections |-> projs,
         total_contributions |-> contributions,
         final_balance |-> final_balance,
         success |-> Success(final_balance, ws),
         warnings |-> ws,
         recommendations |-> Recommendations(plan, final_balance)]

----------------------------------------------------------------------------
(* The explored plans *)

\* ages at which an explored plan starts: just before the benefit ages and
\* just before the first RRIF year
StartAges == {64, 71}

\* <<current_age, retirement_age, life_expectancy>>: retirement at once or
\* after MaxAccumYears, death one year or MaxRetiredYears after retirement
AgeProfiles ==
    {<<c, r, l>> \in StartAges \X (55..75) \X (65..150) :
        /\ r \in {c, c + MaxAccumYears}
        /\ l \in {r + 1, r + MaxRetiredYears}}

\* <<rrsp_balance, tfsa_balance, non_registered>>
BalanceOptions ==
    { <<0, 0, 0>>,
      <<Dollars(400000), 0, 0>>,
      <<0, Dollars(30000), Dollars(20000)>>,
      <<Dollars(400000), Dollars(30000), Dollars(20000)>> }

SpendingOptions == {Dollars(100), Dollars(40000), Dollars(120000)}

\* <<rrsp_real_return, tfsa_real_return, non_reg_real_return, monthly_contribution>>
SavingsOptions ==
    { <<200, 400, 500, Dollars(1000)>>, <<-1000, -1000, 0, 0>> }

\* <<cpp_start_age, cpp_monthly, oas_start_age>>; the start ages 59 and 71
\* are those of a plan built without the field validation
BenefitOptions ==
    { <<59, Dollars(1200), 65>>, <<60, Dollars(1200), 65>>,
      <<65, Dollars(1200), 65>>, <<65, 0, 70>>,
      <<70, Dollars(1200), 70>>, <<71, Dollars(1200), 65>> }

Stream == [monthly_amount |-> Dollars(2000), start_year |-> 2034,
           end_year |-> 0, indexing_rate |-> 200]

\* <<tax_calculation_mode, province, pensions, additional_income>>
TaxStreamOptions ==
    { <<"simplified", "Ontario", <<>>, <<>> >>,
      <<"simplified", "Ontario", <<Stream>>, <<>> >>,
      <<"simplified", "Ontario", <<>>, <<Stream>> >>,
      <<"accurate", "Ontario", <<>>, <<>> >>,
      <<"accurate", "Yukon", <<>>, <<>> >> }

Holding(sale_age, property_type) ==
    [value |-> Dollars(300000), real_return |-> 100, sale_age |-> sale_age,
     property_type |-> property_type]

\* real_estate_holdings of a plan that starts at age c
HoldingOptions(c) ==
    { <<>>,
      << Holding(0, "primary_residence"), Holding(c, "cottage") >>,
      << Holding(c + 1, "rental") >> }

\* <<has_spouse, spouse_age>>, spouse_age 0 standing for None; the spouse
\* is read only from age 72 on.  A spouse age may come without has_spouse.
SpouseOptions(l) ==
    IF l >= RRIF_MINIMUM_START_AGE
    THEN { <<FALSE, 0>>, <<FALSE, 60>>, <<TRUE, 18>>, <<TRUE, 60>> }
    ELSE { <<FALSE, 0>> }

\* the life expectancy of the plans that run past the age of 100
LongLifeExpectancy == 101

\* the RetirementPlanInput made of one choice of each option
PlanOf(a, b, sp, s, g, t, h, so) ==
    [current_age |-> a[1], retirement_age |-> a[2], life_expectancy |-> a[3],
     province |-> t[2],
     rrsp_balance |-> b[1], tfsa_balance |-> b[2], non_registered |-> b[3],
     monthly_contribution |-> s[4],
     rrsp_real_return |-> s[1], tfsa_real_return |-> s[2],
     non_reg_real_return |-> s[3],
     real_estate_holdings |-> h,
     cpp_monthly |-> g[2], cpp_start_age |-> g[1], oas_start_age |-> g[3],
     pensions |-> t[3], additional_income |-> t[4],
     desired_annual_spending |-> sp,
     has_spouse |-> so[1], spouse_age |-> so[2],
     tax_calculation_mode |-> t[1]]

\* plans of a 75-year-old who retires at once and lives past 100, with a
\* balance whose mandatory withdrawal reaches the OAS clawback
LongPlans ==
    { PlanOf(<<75, 75, LongLifeExpectancy>>, b, sp, s, g, t, <<>>, so) :
        b \in { <<Dollars(400000), 0, 0>>,
                <<Dollars(3000000), Dollars(30000), Dollars(20000)>> },
        sp \in {Dollars(100), Dollars(40000)},
        s \in SavingsOptions,
        g \in { <<65, Dollars(1200), 65>>, <<70, Dollars(1200), 70>> },
        t \in { <<"simplified", "Ontario", <<>>, <<>> >>,
                <<"accurate", "Ontario", <<>>, <<>> >> },
        so \in { <<FALSE, 0>>, <<TRUE, 60>> } }

\* a stream without indexing that ends one year after its start year
EndingStream == [monthly_amount |-> Dollars(2000), start_year |-> 2034,
                 end_year |-> 2035, indexing_rate |-> 0]

\* plans that carry EndingStream, as a pension or as additional income, and
\* run two years past its end year
EndingStreamPlans ==
    { PlanOf(a, <<Dollars(400000), Dollars(30000), Dollars(20000)>>,
             Dollars(40000), <<200, 400, 500, Dollars(1000)>>,
             <<65, Dollars(1200), 65>>, t, <<>>, <<FALSE, 0>>) :
        a \in { <<64, 64, 67>>, <<64, 65, 67>> },
        t \in { <<"simplified", "Ontario", <<EndingStream>>, <<>> >>,
                <<"simplified", "Ontario", <<>>, <<EndingStream>> >> } }

\* plans of a saver with three accumulation years before retirement
SaverPlans ==
    { PlanOf(<<61, 64, 65>>, b, Dollars(40000), s,
             <<65, Dollars(1200), 65>>,
             <<"simplified", "Ontario", <<>>, <<>> >>, <<>>, <<FALSE, 0>>) :
        b \in { <<0, 0, 0>>,
                <<Dollars(400000), Dollars(30000), Dollars(20000)>> },
        s \in SavingsOptions }

----------------------------------------------------------------------------
(* The state: one call of calculator.calculate_plan(plan_input) *)

VARIABLES
    plan_input,          \* the argument
    pc,                  \* "start", "loop", "summarize", "returned", "raised"
    year,                \* the loop variable
    rrsp_balance, tfsa_balance, non_reg_balance,
    total_contributions,
    adjusted_cpp,
    projections,         \* the list of YearlyProjection
    warnings,            \* the list of warning strings
    iterations,          \* the local variables each finished iteration left
    error,               \* the exception that ended the call, "" if none
    result,              \* <<>> until the call returns, then <<the output>>
    rule_call,           \* a call of one rule function: its name and arguments
    rule_result,         \* <<>> until that call returns, then <<its value>>
    calls,               \* the activations of calculate_plan that run together
    scenarios,           \* the scenario list of a batch request
    batch_pc,            \* "loop", "done" or "aborted" ("idle": no batch)
    results,             \* the results list of the batch request
    batch_input,         \* the BatchRetirementPlanInput of a ScenarioGenerator
    gen_pc,              \* "generate", "create", "done" or "raised" ("idle")
    field_values,        \* the combinations generate_scenarios iterates over
    generated            \* the scenarios list of generate_scenarios

\* the variables of one calculate_plan call
call_vars == <<plan_input, pc, year, rrsp_balance, tfsa_balance, non_reg_balance,
               total_contributions, adjusted_cpp, projections, warnings,
               iterations, error, result>>

rule_vars == <<rule_call, rule_result>>

batch_vars == <<scenarios, batch_pc, results>>

gen_vars == <<batch_input, gen_pc, field_values, generated>>

vars == <<plan_input, pc, year, rrsp_balance, tfsa_balance, non_reg_balance,
          total_contributions, adjusted_cpp, projections, warnings,
          iterations, error, result, rule_call, rule_result, calls,
          scenarios, batch_pc, results,
          batch_input, gen_pc, field_values, generated>>

\* no rule call, no concurrent activations, no batch, no generator
NoRuleCall == rule_call = [op |-> "none"] /\ rule_result = <<>>

NoCalls == calls = <<>>

NoBatch == scenarios = <<>> /\ batch_pc = "idle" /\ results = <<>>

NoGeneration ==
    /\ batch_input = <<>> /\ gen_pc = "idle"
    /\ field_values = <<>> /\ generated = <<>>

Frame ==
    [year |-> year, rrsp_balance |-> rrsp_balance, tfsa_balance |-> tfsa_balance,
     non_reg_balance |-> non_reg_balance,
     total_contributions |-> total_contributions, adjusted_cpp |-> adjusted_cpp]

total_years == plan_input.life_expectancy - plan_input.current_age

Init ==
    /\ \/ \E a \in AgeProfiles, b \in BalanceOptions, sp \in SpendingOptions,
             s \in SavingsOptions, g \in BenefitOptions, t \in TaxStreamOptions :
             \E h \in HoldingOptions(a[1]), so \in SpouseOptions(a[3]) :
                 plan_input = PlanOf(a, b, sp, s, g, t, h, so)
       \/ plan_input \in LongPlans
       \/ plan_input \in EndingStreamPlans
       \/ plan_input \in SaverPlans
    /\ pc = "start"
    /\ year = 0
    /\ rrsp_balance = 0 /\ tfsa_balance = 0 /\ non_reg_balance = 0
    /\ total_contributions = 0
    /\ adjusted_cpp = 0
    /\ projections = <<>>
    /\ warnings = <<>>
    /\ iterations = <<>>
    /\ error = ""
    /\ result = <<>>
    /\ NoRuleCall /\ NoCalls /\ NoBatch /\ NoGeneration

\* lines 73-94: the timeline, the starting balances, the adjusted CPP
Start ==
    /\ pc = "start"
    /\ LET cpp == calculate_cpp_adjustment(plan_input.cpp_start_age,
                                           plan_input.cpp_monthly)
       IN  IF cpp.raised
           THEN /\ pc' = "raised"
                /\ error' = "ValueError: CPP age"
                /\ UNCHANGED <<rrsp_balance, tfsa_balance, non_reg_balance,
                               adjusted_cpp>>
           ELSE /\ pc' = "loop"
                /\ rrsp_balance' = plan_input.rrsp_balance
                /\ tfsa_balance' = plan_input.tfsa_balance
                /\ non_reg_balance' = plan_input.non_registered
                /\ adjusted_cpp' = cpp.value
                /\ error' = ""
    /\ UNCHANGED <<plan_input, year, total_contributions, projections,
                   warnings, iterations, result>>
    /\ UNCHANGED <<rule_vars, calls, batch_vars, gen_vars>>

\* one iteration of the year loop, in either phase
LoopIteration(phase) ==
    /\ pc = "loop"
    /\ year <= total_years
    /\ phase = IF plan_input.current_age + year >= plan_input.retirement_age
               THEN "retirement" ELSE "accumulation"
    /\ LET it == Iteration(plan_input, Frame)
       IN  IF it.raised
           THEN /\ pc' = "raised"
                /\ error' = it.error
                /\ UNCHANGED <<year, rrsp_balance, tfsa_balance, non_reg_balance,
                               total_contributions, projections, warnings,
                               iterations>>
           ELSE /\ pc' = IF year + 1 <= total_years THEN "loop" ELSE "summarize"
                /\ year' = year + 1
                /\ rrsp_balance' = it.rrsp_balance
                /\ tfsa_balance' = it.tfsa_balance
                /\ non_reg_balance' = it.non_reg_balance
                /\ total_contributions' = it.total_contributions
                /\ projections' = Append(projections, it.projection)
                /\ warnings' = warnings \o it.warnings
                /\ iterations' = Append(iterations, it.locals)
                /\ error' = ""
    /\ UNCHANGED <<plan_input, adjusted_cpp, result>>
    /\ UNCHANGED <<rule_vars, calls, batch_vars, gen_vars>>

AccumulationPhase == LoopIteration("accumulation")

RetirementPhase == LoopIteration("retirement")

\* lines 304-356: recommendations, success, the returned output
Summarize ==
    /\ pc = "summarize"
    /\ pc' = "returned"
    /\ result' = << RetirementPlanOutput(plan_input, projections,
                                         total_contributions, warnings) >>
    /\ UNCHANGED <<plan_input, year, rrsp_balance, tfsa_balance, non_reg_balance,
                   total_contributions, adjusted_cpp, projections, warnings,
                   iterations, error>>
    /\ UNCHANGED <<rule_vars, calls, batch_vars, gen_vars>>

Next == Start \/ AccumulationPhase \/ RetirementPhase \/ Summarize

Spec == Init /\ [][Next]_vars

----------------------------------------------------------------------------
(* calculate_plan as a function of the plan, for statements that compare   *)
(* the projections of two plans                                            *)

NextFrame(f, it) ==
    [year |-> f.year + 1, rrsp_balance |-> it.rrsp_balance,
     tfsa_balance |-> it.tfsa_balance, non_reg_balance |-> it.non_reg_balance,
     total_contributions |-> it.total_contributions,
     adjusted_cpp |-> f.adjusted_cpp]

\* the iterations from frame f on: the projections, or a raise
RECURSIVE RunLoop(_, _)
RunLoop(plan, f) ==
    IF f.year > plan.life_expectancy - plan.current_age
    THEN [raised |-> FALSE, projections |-> <<>>]
    ELSE LET it == Iteration(plan, f)
         IN  IF it.raised THEN [raised |-> TRUE, projections |-> <<>>]
             ELSE LET rest == RunLoop(plan, NextFrame(f, it))
                  IN  IF rest.raised THEN rest
                      ELSE [raised |-> FALSE,
                            projections |-> <<it.projection>> \o rest.projections]

CalculatePlan(plan) ==
    LET cpp == calculate_cpp_adjustment(plan.cpp_start_age, plan.cpp_monthly)
    IN  IF cpp.raised THEN [raised |-> TRUE, projections |-> <<>>]
        ELSE RunLoop(plan, [year |-> 0, rrsp_balance |-> plan.rrsp_balance,
                            tfsa_balance |-> plan.tfsa_balance,
                            non_reg_balance |-> plan.non_registered,
                            total_contributions |-> 0,
                            adjusted_cpp |-> cpp.value])

----------------------------------------------------------------------------
(* calculate_plan on an activation record: the local variables of one call *)
(* as one value, for calls that run together and for callers that use the  *)
(* call as a function                                                      *)

\* the single call of the specification Spec is absent
NoCall ==
    /\ plan_input = <<>> /\ pc = "idle" /\ year = 0
    /\ rrsp_balance = 0 /\ tfsa_balance = 0 /\ non_reg_balance = 0
    /\ total_contributions = 0 /\ adjusted_cpp = 0
    /\ projections = <<>> /\ warnings = <<>> /\ iterations = <<>>
    /\ error = "" /\ result = <<>>

\* the activation at the entry of calculate_plan(plan)
InitialCall(plan) ==
    [plan_input |-> plan, pc |-> "start", year |-> 0,
     rrsp_balance |-> 0, tfsa_balance |-> 0, non_reg_balance |-> 0,
     total_contributions |-> 0, adjusted_cpp |-> 0,
     projections |-> <<>>, warnings |-> <<>>, error |-> "", result |-> <<>>]

FrameOfCall(s) ==
    [year |-> s.year, rrsp_balance |-> s.rrsp_balance,
     tfsa_balance |-> s.tfsa_balance, non_reg_balance |-> s.non_reg_balance,
     total_contributions |-> s.total_contributions,
     adjusted_cpp |-> s.adjusted_cpp]

\* lines 73-94
StartCall(s) ==
    LET cpp == calculate_cpp_adjustment(s.plan_input.cpp_start_age,
                                        s.plan_input.cpp_monthly)
    IN  IF cpp.raised
        THEN [s EXCEPT !.pc = "raised", !.error = "ValueError: CPP age"]
        ELSE [s EXCEPT !.pc = "loop",
                       !.rrsp_balance = s.plan_input.rrsp_balance,
                       !.tfsa_balance = s.plan_input.tfsa_balance,
                       !.non_reg_balance = s.plan_input.non_registered,
                       !.adjusted_cpp = cpp.value]

\* lines 97-302, one iteration
IterateCall(s) ==
    LET it == Iteration(s.plan_input, FrameOfCall(s))
        last == s.plan_input.life_expectancy - s.plan_input.current_age
    IN  IF it.raised
        THEN [s EXCEPT !.pc = "raised", !.error = it.error]
        ELSE [s EXCEPT !.pc = IF s.year + 1 <= last THEN "loop" ELSE "summarize",
                       !.year = s.year + 1,
                       !.rrsp_balance = it.rrsp_balance,
                       !.tfsa_balance = it.tfsa_balance,
                       !.non_reg_balance = it.non_reg_balance,
                       !.total_contributions = it.total_contributions,
                       !.projections = Append(s.projections, it.projection),
                       !.warnings = s.warnings \o it.warnings]

\* lines 304-356
SummarizeCall(s) ==
    [s EXCEPT !.pc = "returned",
              !.result = << RetirementPlanOutput(s.plan_input, s.projections,
                                                 s.total_contributions,
                                                 s.warnings) >>]

StepCall(s) ==
    IF s.pc = "start" THEN StartCall(s)
    ELSE IF s.pc = "loop" THEN IterateCall(s)
    ELSE IF s.pc = "summarize" THEN SummarizeCall(s)
    ELSE s

\* the call run to its return or its raise
RECURSIVE RunCall(_)
RunCall(s) ==
    IF s.pc \in {"returned", "raised"} THEN s ELSE RunCall(StepCall(s))

calculate_plan(plan) == RunCall(InitialCall(plan))

----------------------------------------------------------------------------
(* Calls of calculator.calculate_plan that run together on the singleton:  *)
(* every name the method assigns is a local variable of the call; the      *)
(* instance holds self.rules only, which no call writes                    *)

\* number of calls that run together
MaxCalls == 2

BasePlan(a, b, sp, g, t, h, so) ==
    PlanOf(a, b, sp, <<200, 400, 500, Dollars(1000)>>, g, t, h, so)

\* plans for calls and batches: with savings years, with shortfall
\* warnings, with a property sale and a spouse, and two that raise
SamplePlans ==
    { BasePlan(<<64, 64 + MaxAccumYears, 64 + MaxAccumYears + MaxRetiredYears>>,
               <<Dollars(400000), Dollars(30000), Dollars(20000)>>,
               Dollars(40000), <<65, Dollars(1200), 65>>,
               <<"simplified", "Ontario", <<Stream>>, <<>> >>,
               <<>>, <<FALSE, 0>>),
      BasePlan(<<71, 71, 71 + MaxRetiredYears>>,
               <<0, Dollars(30000), Dollars(20000)>>,
               Dollars(120000), <<60, Dollars(1200), 65>>,
               <<"accurate", "Ontario", <<>>, <<>> >>,
               <<>>, <<FALSE, 0>>),
      BasePlan(<<71, 71, 71 + MaxRetiredYears>>,
               <<Dollars(400000), 0, 0>>,
               Dollars(100), <<70, Dollars(1200), 70>>,
               <<"simplified", "Ontario", <<>>, <<>> >>,
               << Holding(72, "rental") >>, <<TRUE, 60>>),
      BasePlan(<<64, 64, 64 + MaxRetiredYears>>,
               <<Dollars(400000), 0, 0>>,
               Dollars(40000), <<71, Dollars(1200), 65>>,
               <<"simplified", "Ontario", <<>>, <<>> >>,
               <<>>, <<FALSE, 0>>),
      BasePlan(<<64, 64 + MaxAccumYears, 64 + MaxAccumYears + MaxRetiredYears>>,
               <<Dollars(400000), 0, 0>>,
               Dollars(40000), <<65, Dollars(1200), 65>>,
               <<"accurate", "Yukon", <<>>, <<>> >>,
               <<>>, <<FALSE, 0>>) }

\* the local variables call c works on
Activation_balances_on_instance(cs, c) ==
    [cs[c] EXCEPT !.rrsp_balance = cs[1].rrsp_balance,
                  !.tfsa_balance = cs[1].tfsa_balance,
                  !.non_reg_balance = cs[1].non_reg_balance]

Activation(cs, c) == cs[c]

ConcurrentInit ==
    /\ calls \in [1..MaxCalls -> {InitialCall(p) : p \in SamplePlans}]
    /\ NoCall /\ NoRuleCall /\ NoBatch /\ NoGeneration

ConcurrentStart ==
    /\ \E c \in DOMAIN calls :
          /\ calls[c].pc = "start"
          /\ calls' = [calls EXCEPT ![c] = StartCall(Activation(calls, c))]
    /\ UNCHANGED <<call_vars, rule_vars, batch_vars, gen_vars>>

ConcurrentIterate ==
    /\ \E c \in DOMAIN calls :
          /\ calls[c].pc = "loop"
          /\ calls' = [calls EXCEPT ![c] = IterateCall(Activation(calls, c))]
    /\ UNCHANGED <<call_vars, rule_vars, batch_vars, gen_vars>>

ConcurrentSummarize ==
    /\ \E c \in DOMAIN calls :
          /\ calls[c].pc = "summarize"
          /\ calls' = [calls EXCEPT ![c] = SummarizeCall(Activation(calls, c))]
    /\ UNCHANGED <<call_vars, rule_vars, batch_vars, gen_vars>>

ConcurrentNext == ConcurrentStart \/ ConcurrentIterate \/ ConcurrentSummarize

ConcurrentSpec == ConcurrentInit /\ [][ConcurrentNext]_vars

----------------------------------------------------------------------------
(* api/v1/batch_retirement: the loop "4. Calculate all scenarios" of       *)
(* calculate_batch_scenarios, the same in calculate_batch_test             *)

\* largest number of generated scenarios
MaxScenarios == 3

\* "except Exception": the exceptions the handler catches; calculate_plan
\* raises ValueError and KeyError, both subclasses of Exception
Catches_ValueError_only(e) == e \in {"ValueError: CPP age", "ValueError: RRIF age"}

Catches(e) == TRUE

\* the entries appended to results
OutputEntry(i, scenario_input, output) ==
    [scenario_id |-> i, input |-> scenario_input, output |-> output]

ErrorEntry(i, scenario_input, e) ==
    [scenario_id |-> i, input |-> scenario_input, error |-> e]

BatchInit ==
    /\ scenarios \in UNION { [1..n -> SamplePlans] : n \in 0..MaxScenarios }
    /\ batch_pc = "loop"
    /\ results = <<>>
    /\ NoCall /\ NoRuleCall /\ NoCalls /\ NoGeneration

\* one pass of "for i, scenario_input in enumerate(scenarios, start=1)" that
\* takes the try branch; every pass appends one entry, so i = len(results) + 1
ScenarioCalculated ==
    /\ batch_pc = "loop"
    /\ Len(results) < Len(scenarios)
    /\ LET i == Len(results) + 1
           call == calculate_plan(scenarios[i])
       IN  /\ call.pc = "returned"
           /\ results' = Append(results, OutputEntry(i, scenarios[i], call.result[1]))
    /\ UNCHANGED <<scenarios, batch_pc, call_vars, rule_vars, calls, gen_vars>>

\* one pass in which calculate_plan raises
ScenarioFailed ==
    /\ batch_pc = "loop"
    /\ Len(results) < Len(scenarios)
    /\ LET i == Len(results) + 1
           call == calculate_plan(scenarios[i])
       IN  /\ call.pc = "raised"
           /\ IF Catches(call.error)
              THEN /\ results' = Append(results, ErrorEntry(i, scenarios[i], call.error))
                   /\ UNCHANGED batch_pc
              ELSE /\ batch_pc' = "aborted"
                   /\ UNCHANGED results
    /\ UNCHANGED <<scenarios, call_vars, rule_vars, calls, gen_vars>>

\* the loop is over: the results go to the export
BatchCompleted ==
    /\ batch_pc = "loop"
    /\ Len(results) = Len(scenarios)
    /\ batch_pc' = "done"
    /\ UNCHANGED <<scenarios, results, call_vars, rule_vars, calls, gen_vars>>

BatchNext == ScenarioCalculated \/ ScenarioFailed \/ BatchCompleted

BatchSpec == BatchInit /\ [][BatchNext]_vars

----------------------------------------------------------------------------
(* The rule functions called on their own: the Tax Rule Table, the RRIF    *)
(* minimum, the CPP adjustment and the income stream of a year             *)

\* largest age given to the rule functions
MaxRuleAge == 110

\* the ten provinces with tables and one without, which takes the defaults
TaxJurisdictions == TaxProvinceValues \cup {"Yukon"}

BasicAmountOf(province) ==
    IF province \in DOMAIN PROVINCIAL_BASIC_AMOUNTS
    THEN PROVINCIAL_BASIC_AMOUNTS[province] ELSE Dollars(10000)

BracketsOf(province) ==
    IF province \in DOMAIN PROVINCIAL_BRACKETS
    THEN PROVINCIAL_BRACKETS[province] ELSE << <<INF, 1000>> >>

\* the incomes at which an exemption ends or a bracket begins
TaxThresholdsOf(province) ==
    {FEDERAL_BASIC_PERSONAL_AMOUNT, BasicAmountOf(province)}
    \cup { FEDERAL_BASIC_PERSONAL_AMOUNT + FEDERAL_BRACKETS[k][1] :
             k \in { n \in DOMAIN FEDERAL_BRACKETS : FEDERAL_BRACKETS[n][1] < INF } }
    \cup { BasicAmountOf(province) + BracketsOf(province)[k][1] :
             k \in { n \in DOMAIN BracketsOf(province) :
                       BracketsOf(province)[n][1] < INF } }

\* incomes in cents: negative, zero, one cent, each threshold and the cent
\* below and above it, and five million dollars
TaxIncomesOf(province) ==
    {-Dollars(1), 0, 1, Dollars(5000000)}
    \cup { t + d : t \in TaxThresholdsOf(province), d \in {-1, 0, 1} }

TaxCalls ==
    { [op |-> "calculate_tax", taxable_income |-> i, province |-> p] :
        p \in TaxJurisdictions, i \in UNION { TaxIncomesOf(q) : q \in TaxJurisdictions } }

RrifCalls ==
    { [op |-> "calculate_rrif_minimum_withdrawal", balance |-> b, age |-> a] :
        b \in {0, 1, Dollars(100000), Dollars(3000000)}, a \in 0..MaxRuleAge }

CppCalls ==
    { [op |-> "calculate_cpp_adjustment", age |-> a, base_amount |-> x] :
        a \in 55..75, x \in {0, 1, Dollars(1000), 136460, Dollars(2000)} }

PensionCalls ==
    { [op |-> "_calculate_pension_for_year", year |-> y,
       pension |-> [monthly_amount |-> m, start_year |-> 2034,
                    end_year |-> e, indexing_rate |-> r]] :
        y \in 2032..2038, m \in {Dollars(1), Dollars(2000)},
        e \in {0, 2034, 2036}, r \in {-300, 0, 200} }

RulesInit ==
    /\ \/ rule_call \in TaxCalls
       \/ rule_call \in RrifCalls
       \/ rule_call \in CppCalls
       \/ rule_call \in PensionCalls
    /\ rule_result = <<>>
    /\ NoCall /\ NoCalls /\ NoBatch /\ NoGeneration

CallCalculateTax ==
    /\ rule_call.op = "calculate_tax"
    /\ rule_result = <<>>
    /\ rule_result' = << calculate_tax(rule_call.taxable_income, rule_call.province) >>
    /\ UNCHANGED <<rule_call, call_vars, calls, batch_vars, gen_vars>>

\* the factor looked up and the withdrawal returned
CallRrifMinimumWithdrawal ==
    /\ rule_call.op = "calculate_rrif_minimum_withdrawal"
    /\ rule_result = <<>>
    /\ rule_result' =
          << [factor |-> get_rrif_minimum_factor(rule_call.age),
              withdrawal |-> calculate_rrif_minimum_withdrawal(rule_call.balance,
                                                               rule_call.age)] >>
    /\ UNCHANGED <<rule_call, call_vars, calls, batch_vars, gen_vars>>

CallCppAdjustment ==
    /\ rule_call.op = "calculate_cpp_adjustment"
    /\ rule_result = <<>>
    /\ rule_result' = << calculate_cpp_adjustment(rule_call.age, rule_call.base_amount) >>
    /\ UNCHANGED <<rule_call, call_vars, calls, batch_vars, gen_vars>>

CallPensionForYear ==
    /\ rule_call.op = "_calculate_pension_for_year"
    /\ rule_result = <<>>
    /\ rule_result' = << _calculate_pension_for_year(rule_call.year, rule_call.pension,
                                                     rule_call.pension.start_year) >>
    /\ UNCHANGED <<rule_call, call_vars, calls, batch_vars, gen_vars>>

RulesNext ==
    CallCalculateTax \/ CallRrifMinimumWithdrawal \/ CallCppAdjustment
    \/ CallPensionForYear

RulesSpec == RulesInit /\ [][RulesNext]_vars

----------------------------------------------------------------------------
(* ScenarioGenerator.generate_scenarios on a BatchRetirementPlanInput.     *)
(* The values of a RangeField are floats: money is in cents, returns in    *)
(* basis points and ages in tenths of a year, so that int() has something  *)
(* to truncate.  An absent max (None) is <<>>, a given one <<max>>.        *)

\* the most range fields an explored batch input enables
MaxEnabledFields == 2

\* the range fields, in the order of count_enabled_fields
RangeFieldNames ==
    << "retirement_age", "rrsp_balance", "tfsa_balance", "nonreg_balance",
       "annual_spending", "monthly_savings", "rrsp_real_return",
       "tfsa_real_return", "nonreg_real_return", "real_estate_appreciation",
       "real_estate_sale_age", "cpp_start_age", "oas_start_age" >>

\* the keys of the dict in _get_field_value_combinations, in its order
CombinedFieldNames ==
    << "retirement_age", "rrsp_balance", "tfsa_balance", "nonreg_balance",
       "annual_spending", "monthly_savings", "rrsp_real_return",
       "tfsa_real_return", "nonreg_real_return", "cpp_start_age",
       "oas_start_age" >>

RangeField(min, max, enabled) == [min |-> min, max |-> max, enabled |-> enabled]

\* RangeField.get_values
get_values(field) ==
    IF ~ field.enabled \/ field.max = <<>>
    THEN << field.min >>
    ELSE << field.min, field.max[1] >>

\* BatchRetirementPlanInput.count_enabled_fields
count_enabled_fields(b) ==
    Cardinality({ i \in DOMAIN RangeFieldNames : b[RangeFieldNames[i]].enabled })

\* BatchRetirementPlanInput.estimate_scenario_count
estimate_scenario_count(b) == 2 ^ count_enabled_fields(b)

\* itertools.product(*value_lists): the last list varies fastest
RECURSIVE product(_)
product(value_lists) ==
    IF value_lists = <<>> THEN << <<>> >>
    ELSE LET rest == product(Tail(value_lists))
             first == Head(value_lists)
         IN  [ k \in 1..(Len(first) * Len(rest)) |->
                 << first[((k - 1) \div Len(rest)) + 1] >>
                 \o rest[((k - 1) % Len(rest)) + 1] ]

\* ScenarioGenerator._get_field_value_combinations: one dict per combination
_get_field_value_combinations(b) ==
    LET value_lists == [ i \in DOMAIN CombinedFieldNames |->
                           get_values(b[CombinedFieldNames[i]]) ]
        combinations == product(value_lists)
    IN  [ k \in DOMAIN combinations |->
            [ name \in { CombinedFieldNames[i] : i \in DOMAIN CombinedFieldNames } |->
                combinations[k][CHOOSE i \in DOMAIN CombinedFieldNames :
                                    CombinedFieldNames[i] = name] ] ]

\* int() of an age held in tenths of a year
ToInt(tenths) == tenths \div 10

\* ScenarioGenerator._create_scenario: the keyword arguments handed to
\* RetirementPlanInput
_create_scenario(b, values) ==
    PlanOf(<<b.current_age, ToInt(values.retirement_age), b.life_expectancy>>,
           <<values.rrsp_balance, values.tfsa_balance, values.nonreg_balance>>,
           values.annual_spending,
           <<values.rrsp_real_return, values.tfsa_real_return,
             values.nonreg_real_return, values.monthly_savings>>,
           <<ToInt(values.cpp_start_age), Dollars(1200), ToInt(values.oas_start_age)>>,
           <<"simplified", b.province, b.pensions, <<>> >>,
           b.real_estate_holdings, <<FALSE, 0>>)

\* the field bounds and the validators of RetirementPlanInput
RetirementPlanInputValid(plan) ==
    /\ plan.current_age \in 18..100
    /\ plan.retirement_age \in 55..75
    /\ plan.life_expectancy \in 65..150
    /\ plan.province \in PlanProvinceValues
    /\ plan.rrsp_balance >= 0 /\ plan.tfsa_balance >= 0 /\ plan.non_registered >= 0
    /\ plan.monthly_contribution >= 0 /\ plan.monthly_contribution <= Dollars(10000)
    /\ plan.rrsp_real_return \in -1000..1500
    /\ plan.tfsa_real_return \in -1000..1500
    /\ plan.non_reg_real_return \in -1000..1500
    /\ plan.cpp_monthly >= 0 /\ plan.cpp_monthly <= Dollars(2000)
    /\ plan.cpp_start_age \in 60..70
    /\ plan.oas_start_age \in 65..70
    /\ plan.desired_annual_spending >= 0
    /\ plan.retirement_age >= plan.current_age
    /\ plan.life_expectancy > plan.retirement_age

\* the min of each range field of the explored batch inputs
RangeMin ==
    [retirement_age |-> 650, rrsp_balance |-> Dollars(400000),
     tfsa_balance |-> Dollars(30000), nonreg_balance |-> Dollars(20000),
     annual_spending |-> Dollars(40000), monthly_savings |-> 0,
     rrsp_real_return |-> 200, tfsa_real_return |-> 400,
     nonreg_real_return |-> 500, real_estate_appreciation |-> 100,
     real_estate_sale_age |-> 0, cpp_start_age |-> 650, oas_start_age |-> 650]

\* the max of each range field; retirement_max is 67.5 or, past the limit
\* of RetirementPlanInput, 76
RangeMax(retirement_max) ==
    [retirement_age |-> retirement_max, rrsp_balance |-> Dollars(500000),
     tfsa_balance |-> Dollars(30000), nonreg_balance |-> Dollars(50000),
     annual_spending |-> Dollars(60000), monthly_savings |-> Dollars(1000),
     rrsp_real_return |-> 400, tfsa_real_return |-> 600,
     nonreg_real_return |-> 700, real_estate_appreciation |-> 300,
     real_estate_sale_age |-> 800, cpp_start_age |-> 700, oas_start_age |-> 700]

RangeFieldNameSet == { RangeFieldNames[i] : i \in DOMAIN RangeFieldNames }

\* the batch input whose fields in enabled are enabled, those in open
\* without a max; a field that is not enabled carries its max all the same
BatchInputOf(enabled, open, retirement_max) ==
    [ name \in RangeFieldNameSet
               \cup {"current_age", "life_expectancy", "province",
                     "real_estate_holdings", "pensions"} |->
        CASE name = "current_age" -> 64
          [] name = "life_expectancy" -> 90
          [] name = "province" -> "Ontario"
          [] name = "real_estate_holdings" -> <<>>
          [] name = "pensions" -> <<>>
          [] OTHER -> RangeField(RangeMin[name],
                                 IF name \in open THEN <<>>
                                 ELSE << RangeMax(retirement_max)[name] >>,
                                 name \in enabled) ]

BatchInputs ==
    { BatchInputOf(enabled, open, retirement_max) :
        enabled \in { e \in SUBSET RangeFieldNameSet :
                        Cardinality(e) <= MaxEnabledFields },
        open \in { o \in SUBSET RangeFieldNameSet : Cardinality(o) <= 1 },
        retirement_max \in {675, 760} }

GeneratorInit ==
    /\ batch_input \in BatchInputs
    /\ gen_pc = "generate"
    /\ field_values = <<>>
    /\ generated = <<>>
    /\ NoCall /\ NoRuleCall /\ NoCalls /\ NoBatch

\* generate_scenarios, line 37
GetFieldValueCombinations ==
    /\ gen_pc = "generate"
    /\ field_values' = _get_field_value_combinations(batch_input)
    /\ gen_pc' = "create"
    /\ UNCHANGED <<batch_input, generated>>
    /\ UNCHANGED <<call_vars, rule_vars, calls, batch_vars>>

\* one iteration of the loop of generate_scenarios, the scenario accepted
CreateScenario ==
    /\ gen_pc = "create"
    /\ Len(generated) < Len(field_values)
    /\ LET scenario == _create_scenario(batch_input,
                                        field_values[Len(generated) + 1])
       IN  /\ RetirementPlanInputValid(scenario)
           /\ generated' = Append(generated, scenario)
    /\ UNCHANGED <<batch_input, gen_pc, field_values>>
    /\ UNCHANGED <<call_vars, rule_vars, calls, batch_vars>>

\* the iteration in which RetirementPlanInput raises its ValidationError:
\* generate_scenarios is left without a return value
ScenarioRejected ==
    /\ gen_pc = "create"
    /\ Len(generated) < Len(field_values)
    /\ ~ RetirementPlanInputValid(
            _create_scenario(batch_input, field_values[Len(generated) + 1]))
    /\ gen_pc' = "raised"
    /\ UNCHANGED <<batch_input, field_values, generated>>
    /\ UNCHANGED <<call_vars, rule_vars, calls, batch_vars>>

\* "return scenarios"
ScenariosReturned ==
    /\ gen_pc = "create"
    /\ Len(generated) = Len(field_values)
    /\ gen_pc' = "done"
    /\ UNCHANGED <<batch_input, field_values, generated>>
    /\ UNCHANGED <<call_vars, rule_vars, calls, batch_vars>>

GeneratorNext ==
    GetFieldValueCombinations \/ CreateScenario \/ ScenarioRejected
        \/ ScenariosReturned

GeneratorSpec == GeneratorInit /\ [][GeneratorNext]_vars

----------------------------------------------------------------------------
(* Properties *)

Abs(x) == IF x < 0 THEN -x ELSE x

IsRetirementIteration(i) == iterations[i].phase = "retirement"

ShortfallWarned(y) ==
    \E k \in DOMAIN warnings :
        warnings[k].kind = "insufficient_funds" /\ warnings[k].year = y

\* C1: every emitted projection, of an accumulation or a retirement year,
\* has non-negative RRSP/RRIF, TFSA and non-registered balances and a
\* non-negative total.
C1_BalancesNeverNegative ==
    \A i \in DOMAIN projections :
        /\ projections[i].rrsp_rrif_balance >= 0
        /\ projections[i].tfsa_balance >= 0
        /\ projections[i].non_registered_balance >= 0
        /\ projections[i].total_balance >= 0

\* a returned plan with an accumulation year and a retirement year in which
\* the spending need exceeded all three accounts, which were emptied
C1_Witness ==
    /\ pc = "returned"
    /\ \E i \in DOMAIN iterations : iterations[i].phase = "accumulation"
    /\ \E i \in DOMAIN iterations :
          /\ IsRetirementIteration(i)
          /\ iterations[i].start_rrsp > 0 /\ iterations[i].start_tfsa > 0
          /\ iterations[i].shortfall > 0
          /\ projections[i].total_balance = 0

\* C2: in a retirement year with gross income below the spending, the
\* shortfall is taken from the TFSA first; the non-registered account is
\* touched only once the TFSA is at zero, and the RRSP/RRIF only once the
\* TFSA and the non-registered account are both at zero.
C2_WithdrawalOrder ==
    \A i \in DOMAIN iterations :
        (IsRetirementIteration(i)
         /\ projections[i].gross_income < projections[i].spending) =>
            /\ iterations[i].spending_shortfall
                  = projections[i].spending - projections[i].gross_income
            /\ iterations[i].tfsa_withdrawal
                  = Min(iterations[i].spending_shortfall, iterations[i].start_tfsa)
            /\ iterations[i].non_reg_withdrawal > 0
                  => iterations[i].tfsa_after_spending = 0
            /\ iterations[i].rrsp_additional_withdrawal > 0
                  => /\ iterations[i].tfsa_after_spending = 0
                     /\ iterations[i].non_reg_after_spending = 0

\* a retirement year whose shortfall was drawn from all three accounts
C2_Witness ==
    \E i \in DOMAIN iterations :
        /\ IsRetirementIteration(i)
        /\ iterations[i].tfsa_withdrawal > 0
        /\ iterations[i].non_reg_withdrawal > 0
        /\ iterations[i].rrsp_additional_withdrawal > 0

\* C3: a retirement year has an insufficient-funds warning exactly when the
\* shortfall left after the three withdrawals is above 100 dollars; the
\* year of every such warning has its projection, and a call that reaches
\* the end of the loop has emitted the projection of every year up to the
\* life expectancy, warnings or not.
C3_ShortfallWarningNonFatal ==
    /\ \A i \in DOMAIN iterations :
          IsRetirementIteration(i) =>
              (ShortfallWarned(iterations[i].year)
                  <=> iterations[i].shortfall > Dollars(100))
    /\ \A k \in DOMAIN warnings :
          warnings[k].kind = "insufficient_funds" =>
              /\ warnings[k].year + 1 \in DOMAIN projections
              /\ projections[warnings[k].year + 1].year = warnings[k].year
              /\ pc \in {"loop", "summarize", "returned", "raised"}
    /\ pc \in {"summarize", "returned"} =>
          /\ Len(projections) = total_years + 1
          /\ \A y \in 0..total_years :
                /\ projections[y + 1].year = y
                /\ projections[y + 1].age = plan_input.current_age + y

\* a returned plan with a shortfall warning in a year before the last one
C3_Witness ==
    /\ pc = "returned"
    /\ Len(projections) = total_years + 1
    /\ \E k \in DOMAIN warnings :
          /\ warnings[k].kind = "insufficient_funds"
          /\ warnings[k].year < total_years

\* C4: the success flag of the output is "final total balance >= 0 and no
\* shortfall warning was recorded"; a note about a property sale does not
\* count against it.
C4_SuccessIgnoresSaleNotes ==
    pc = "returned" =>
        (result[1].success <=>
            /\ result[1].final_balance >= 0
            /\ ~ \E k \in DOMAIN result[1].warnings :
                    result[1].warnings[k].kind = "insufficient_funds")

\* the plan with the two income-stream lists exchanged
SwapStreams(plan) ==
    [plan EXCEPT !.pensions = plan.additional_income,
                 !.additional_income = plan.pensions]

\* C5: a plan and the plan that carries the same stream in the other list
\* (pension instead of additional income, or the reverse) have gross
\* incomes within 3000 dollars of each other in every projected year.
C5_PensionAndAdditionalIncomeAgree ==
    pc = "returned" =>
        LET twin == CalculatePlan(SwapStreams(plan_input))
        IN  /\ ~ twin.raised
            /\ Len(twin.projections) = Len(projections)
            /\ \A i \in DOMAIN projections :
                  Abs(projections[i].gross_income - twin.projections[i].gross_income)
                      <= Dollars(3000)

SaleNotes(ws, age) ==
    { k \in DOMAIN ws : ws[k].kind = "property_sold" /\ ws[k].age = age }

\* C6: a holding with sale_age > 0 equal to an age of the simulated range
\* (current age .. life expectancy) is sold in exactly that year: the
\* year's non-registered balance is the grown balance plus
\* value * (1 + real_return) ** (sale_age - current_age), no other year has
\* proceeds from it, and the output has one note about the sale; a holding
\* with sale_age 0 is never sold.  (The explored holdings of one plan have
\* different sale ages.)
C6_PropertySoldAtSaleAge ==
    pc = "returned" =>
        \A h \in DOMAIN plan_input.real_estate_holdings :
            LET property == plan_input.real_estate_holdings[h]
                y == property.sale_age - plan_input.current_age
                sale_value == Compound(property.value, property.real_return, y)
            IN  IF /\ property.sale_age > 0
                   /\ property.sale_age \in
                         plan_input.current_age..plan_input.life_expectancy
                THEN /\ iterations[y + 1].sale_proceeds = sale_value
                     /\ projections[y + 1].non_registered_balance >= sale_value
                     /\ \A i \in DOMAIN iterations :
                           i # y + 1 => iterations[i].sale_proceeds = 0
                     /\ Cardinality(SaleNotes(result[1].warnings, property.sale_age)) = 1
                     /\ \A k \in SaleNotes(result[1].warnings, property.sale_age) :
                           result[1].warnings[k].amount = sale_value
                ELSE SaleNotes(result[1].warnings, property.sale_age) = {}

\* C7: calculate_cpp_adjustment raises exactly for the start ages outside
\* 60..70, and calculate_plan called with such a start age ends with that
\* error before the loop: no projection, no warning, no output.
C7_CppAgeOutsideRangeFailsFast ==
    /\ \A age \in 0..150 :
          calculate_cpp_adjustment(age, plan_input.cpp_monthly).raised
              <=> age \notin 60..70
    /\ (plan_input.cpp_start_age \notin 60..70 /\ pc # "start") =>
          /\ pc = "raised"
          /\ error = "ValueError: CPP age"
          /\ projections = <<>> /\ warnings = <<>> /\ result = <<>>
    /\ (pc = "raised" /\ error = "ValueError: CPP age") =>
          plan_input.cpp_start_age \notin 60..70

\* a call that failed on the start age 71
C7_Witness ==
    /\ pc = "raised"
    /\ error = "ValueError: CPP age"
    /\ plan_input.cpp_start_age = 71

\* the age used for the RRIF factor at the holder's age a
ElectedAge(plan, a) ==
    IF plan.has_spouse /\ plan.spouse_age # 0
    THEN Min(a, plan.spouse_age + (a - plan.current_age)) ELSE a

\* the retirement years for which the factor is looked up
FactorYears(plan) ==
    { y \in 0..(plan.life_expectancy - plan.current_age) :
        LET a == plan.current_age + y
        IN  a >= plan.retirement_age /\ a >= 72 /\ a < 100 }

\* C8: get_rrif_minimum_factor raises for every age below 55, and
\* calculate_plan never gets past a retirement year whose withdrawal age
\* (the younger of holder and spouse) is below 55: the call ends with the
\* error and without output, the year gets neither projection nor warning.
C8_RrifAgeBelow55FailsFast ==
    /\ \A age \in 0..54 : get_rrif_minimum_factor(age).raised
    /\ \A i \in DOMAIN iterations :
          iterations[i].year \in FactorYears(plan_input) =>
              /\ iterations[i].withdrawal_age >= 55
              /\ iterations[i].withdrawal_age
                    = ElectedAge(plan_input, iterations[i].age)
    /\ (pc = "raised" /\ error = "ValueError: RRIF age") =>
          /\ result = <<>>
          /\ year \in FactorYears(plan_input)
          /\ ElectedAge(plan_input, plan_input.current_age + year) < 55
          /\ Len(projections) = year
          /\ \A k \in DOMAIN warnings : warnings[k].year < year
    /\ pc \in {"summarize", "returned"} =>
          \A y \in FactorYears(plan_input) :
              ElectedAge(plan_input, plan_input.current_age + y) >= 55

\* a call ended by the factor lookup for a spouse younger than 55
C8_Witness ==
    /\ pc = "raised"
    /\ error = "ValueError: RRIF age"
    /\ plan_input.has_spouse
    /\ Len(projections) > 0

\* C9: accurate-mode tax for a province without bracket table does not
\* fail: a calculate_plan call in accurate mode for such a province is not
\* ended by the province lookup of calculate_canadian_tax.
C9_UnknownProvinceFallsBack ==
    (plan_input.tax_calculation_mode = "accurate"
     /\ plan_input.province \notin TaxProvinceValues) =>
        ~ (pc = "raised" /\ error = "KeyError: province")

\* C10: a retirement year whose tax is not covered by the further TFSA and
\* non-registered withdrawals, and whose net income falls short of the
\* spending, has an insufficient-funds warning.
C10_UncoveredTaxIsWarned ==
    \A i \in DOMAIN iterations :
        (/\ IsRetirementIteration(i)
         /\ iterations[i].tax_coverage_needed > Dollars(100)
         /\ projections[i].net_income + Dollars(100) < projections[i].spending) =>
            ShortfallWarned(iterations[i].year)

\* the iterations at which the loop enters the retirement branch: the first
\* iteration, or one that follows an accumulation iteration
RetirementEntries ==
    { i \in DOMAIN iterations :
        /\ iterations[i].phase = "retirement"
        /\ (i = 1 \/ iterations[i - 1].phase = "accumulation") }

\* C11: every iteration is an accumulation iteration when its age is below
\* the retirement age and a retirement iteration otherwise; the retirement
\* branch is entered at one iteration only, the first whose age has reached
\* the retirement age (the first iteration of a plan that retires at once),
\* and no accumulation iteration follows a retirement iteration.
C11_PhaseSwitchesOnce ==
    /\ \A i \in DOMAIN iterations :
          /\ iterations[i].age = plan_input.current_age + (i - 1)
          /\ iterations[i].phase =
                IF iterations[i].age < plan_input.retirement_age
                THEN "accumulation" ELSE "retirement"
    /\ \A i \in DOMAIN iterations : \A j \in DOMAIN iterations :
          (i < j /\ iterations[i].phase = "retirement")
              => iterations[j].phase = "retirement"
    /\ Cardinality(RetirementEntries) <= 1
    /\ \A i \in RetirementEntries :
          iterations[i].age = plan_input.retirement_age
    /\ pc \in {"summarize", "returned"} => Cardinality(RetirementEntries) = 1

\* a returned plan that went through accumulation years and then more than
\* one retirement year
C11_Witness ==
    /\ pc = "returned"
    /\ Len(iterations) >= 3
    /\ iterations[1].phase = "accumulation"
    /\ iterations[Len(iterations) - 1].phase = "retirement"
    /\ iterations[Len(iterations)].phase = "retirement"

\* C12: the projections are numbered by year from 0 with the age of the
\* year; the returned output holds life_expectancy - current_age + 1 of them;
\* the list only changes by one loop iteration appending the record of its
\* own year, and the records already in it stay as they are.
C12_ProjectionsEmittedOnceInOrder ==
    /\ [](\A i \in DOMAIN projections :
             /\ projections[i].year = i - 1
             /\ projections[i].age = plan_input.current_age + (i - 1))
    /\ [](pc = "returned" =>
             /\ result[1].projections = projections
             /\ Len(result[1].projections)
                   = plan_input.life_expectancy - plan_input.current_age + 1)
    /\ [][/\ \A i \in DOMAIN projections :
                i \in DOMAIN projections' /\ projections'[i] = projections[i]
          /\ projections' # projections =>
                /\ pc = "loop"
                /\ Len(projections) = year
                /\ Len(projections') = Len(projections) + 1
                /\ projections'[Len(projections')].year = year
                /\ year' = year + 1]_vars

\* a returned output with the projections of four or more years
C12_Witness ==
    /\ pc = "returned"
    /\ Len(result[1].projections) >= 4
    /\ Len(result[1].projections)
          = plan_input.life_expectancy - plan_input.current_age + 1

\* the activations a call goes through when it runs alone
RECURSIVE Trajectory(_)
Trajectory(s) ==
    IF s.pc \in {"returned", "raised"} THEN {s}
    ELSE {s} \cup Trajectory(StepCall(s))

\* C13: whatever the interleaving, each of the calls that run together is
\* at every moment in a state of its own run alone, so it returns the output
\* (or raises the error) of calculate_plan on its plan alone; and two calls
\* with the same plan end with the same output or the same error.
C13_CallsIsolatedAndDeterministic ==
    /\ \A c \in DOMAIN calls :
          LET alone == calculate_plan(calls[c].plan_input)
          IN  /\ calls[c] \in Trajectory(InitialCall(calls[c].plan_input))
              /\ calls[c].pc = "returned" =>
                    alone.pc = "returned" /\ calls[c].result = alone.result
              /\ calls[c].pc = "raised" =>
                    /\ alone.pc = "raised" /\ calls[c].error = alone.error
                    /\ calls[c].result = <<>>
    /\ \A c \in DOMAIN calls : \A d \in DOMAIN calls :
          (/\ calls[c].plan_input = calls[d].plan_input
           /\ calls[c].pc \in {"returned", "raised"}
           /\ calls[d].pc \in {"returned", "raised"}) =>
              /\ calls[c].result = calls[d].result
              /\ calls[c].error = calls[d].error

\* two calls with different plans, both in the middle of their loops with
\* different balances
C13_Witness ==
    /\ Len(calls) >= 2
    /\ calls[1].plan_input # calls[2].plan_input
    /\ calls[1].pc = "loop" /\ calls[1].year >= 1
    /\ calls[2].pc = "loop" /\ calls[2].year >= 1
    /\ calls[1].rrsp_balance # calls[2].rrsp_balance

\* C14: the batch loop is never abandoned; the results list holds one
\* entry per scenario handled so far, the k-th about the k-th scenario with
\* scenario_id k; the entry is an error marker exactly when calculate_plan
\* raises on that scenario and otherwise carries its output; and when the
\* loop is over there is an entry for every scenario.
C14_BatchIsolatesFailures ==
    /\ batch_pc \in {"loop", "done"}
    /\ Len(results) <= Len(scenarios)
    /\ \A k \in DOMAIN results :
          LET alone == calculate_plan(scenarios[k])
          IN  /\ results[k].scenario_id = k
              /\ results[k].input = scenarios[k]
              /\ IF alone.pc = "raised"
                 THEN /\ DOMAIN results[k] = {"scenario_id", "input", "error"}
                      /\ results[k].error = alone.error
                 ELSE /\ DOMAIN results[k] = {"scenario_id", "input", "output"}
                      /\ results[k].output = alone.result[1]
    /\ batch_pc = "done" => Len(results) = Len(scenarios)

\* a finished batch whose first scenario raised and whose later scenarios
\* were calculated, one of them with an output after another error
C14_Witness ==
    /\ batch_pc = "done"
    /\ Len(results) >= 3
    /\ "error" \in DOMAIN results[1]
    /\ "error" \in DOMAIN results[2]
    /\ results[1].error # results[2].error
    /\ "output" \in DOMAIN results[3]

\* the rule call op has returned
Returned(op) == rule_call.op = op /\ rule_result # <<>>

\* C15: for every jurisdiction the total tax of calculate_tax is 0 for an
\* income of zero or less, never negative, and non-decreasing in the income:
\* no sampled income above the income of the call has a smaller tax and none
\* below it a larger one, the samples lying on, just below and just above
\* every exemption and bracket threshold.
C15_TotalTaxMonotone ==
    Returned("calculate_tax") =>
        LET i1 == rule_call.taxable_income
            province == rule_call.province
            total_tax == rule_result[1]
        IN  /\ total_tax >= 0
            /\ i1 <= 0 => total_tax = 0
            /\ \A i2 \in TaxIncomesOf(province) :
                  /\ i1 <= i2 => total_tax <= calculate_tax(i2, province)
                  /\ i2 <= i1 => calculate_tax(i2, province) <= total_tax

\* the tax of the first cent in Quebec's second bracket
C15_Witness ==
    /\ Returned("calculate_tax")
    /\ rule_call.province = "Quebec"
    /\ rule_call.taxable_income = Dollars(17183) + Dollars(49275) + 1
    /\ rule_result[1] > 0

\* C16: get_rrif_minimum_factor raises below 55 and is otherwise
\* 1 / (90 - age) below 71, the entry of RRIF_FACTORS from 71 to 94 and 0.20
\* from 95 on; the factor is at most 0.20 and no later age has a smaller
\* one, and the withdrawal it gives is between 0 and the balance.
C16_RrifFactorPiecewise ==
    Returned("calculate_rrif_minimum_withdrawal") =>
        LET age == rule_call.age
            factor == rule_result[1].factor
            withdrawal == rule_result[1].withdrawal
        IN  /\ factor.raised <=> age < 55
            /\ withdrawal.raised <=> age < 55
            /\ ~ factor.raised =>
                  /\ age < 71 => factor.num * (90 - age) = factor.den
                  /\ age \in 71..94 =>
                        factor.num * 10000 = RRIF_FACTORS[age] * factor.den
                  /\ age >= 95 => factor.num * 10000 = 2000 * factor.den
                  /\ factor.num * 5 <= factor.den
                  /\ \A later \in age..MaxRuleAge :
                        factor.num * get_rrif_minimum_factor(later).den
                            <= get_rrif_minimum_factor(later).num * factor.den
                  /\ withdrawal.value >= 0
                  /\ withdrawal.value <= rule_call.balance

\* the withdrawal at 70, the last age of the formula, from a real balance
C16_Witness ==
    /\ Returned("calculate_rrif_minimum_withdrawal")
    /\ rule_call.age = 70
    /\ rule_call.balance = Dollars(100000)
    /\ rule_result[1].withdrawal.value = Dollars(5000)

\* base_amount * (1 + thousandths / 1000)
Adjusted(base_amount, thousandths) == MulDiv(base_amount, 1000 + thousandths, 1000)

\* C17: for a start age from 60 to 70 calculate_cpp_adjustment returns the
\* base amount reduced by 0.6% for each of the 12 * (65 - age) months before
\* 65, the base amount itself at 65, and the base amount raised by 0.7% for
\* each of the min(12 * (age - 65), 60) months after 65: 64% of it at 60 and
\* 142% at 70; and no later start age gives less.
C17_CppAdjustmentFormula ==
    (Returned("calculate_cpp_adjustment") /\ rule_call.age \in 60..70) =>
        LET age == rule_call.age
            X == rule_call.base_amount
            adjusted == rule_result[1]
        IN  /\ ~ adjusted.raised
            /\ age < 65 => adjusted.value = Adjusted(X, - 6 * 12 * (65 - age))
            /\ age = 65 => adjusted.value = X
            /\ age > 65 => adjusted.value = Adjusted(X, 7 * Min(12 * (age - 65), 60))
            /\ age = 60 => adjusted.value = MulDiv(X, 64, 100)
            /\ age = 70 => adjusted.value = MulDiv(X, 142, 100)
            /\ \A later \in age..70 :
                  adjusted.value <= calculate_cpp_adjustment(later, X).value

\* 1000 dollars a month taken at 60
C17_Witness ==
    /\ Returned("calculate_cpp_adjustment")
    /\ rule_call.age = 60
    /\ rule_call.base_amount = Dollars(1000)
    /\ rule_result[1].value = Dollars(640)

\* C19: _calculate_pension_for_year is 0 for a year before start_year and
\* for a year after a set end_year, and otherwise 12 times the monthly
\* amount compounded at the indexing rate over year - start_year years: 12
\* times the monthly amount in the start year, and a payment in the end year.
C19_IncomeStreamWindow ==
    Returned("_calculate_pension_for_year") =>
        LET y == rule_call.year
            pension == rule_call.pension
            amount == rule_result[1]
            ended == pension.end_year # 0 /\ y > pension.end_year
        IN  /\ y < pension.start_year => amount = 0
            /\ ended => amount = 0
            /\ (y >= pension.start_year /\ ~ ended) =>
                  /\ amount = 12 * Compound(pension.monthly_amount,
                                            pension.indexing_rate,
                                            y - pension.start_year)
                  /\ amount > 0
            /\ (y = pension.start_year /\ ~ ended) =>
                  amount = 12 * pension.monthly_amount
            /\ (y = pension.end_year /\ y >= pension.start_year) => amount > 0

\* the payment of the end year of a stream that ends two years after its
\* start, indexed at 2%
C19_Witness ==
    /\ Returned("_calculate_pension_for_year")
    /\ rule_call.pension.end_year = 2036
    /\ rule_call.year = 2036
    /\ rule_call.pension.indexing_rate = 200
    /\ rule_call.pension.monthly_amount = Dollars(2000)
    /\ rule_result[1] = 12 * 208080

\* the full OAS of a year at an age, before clawback
GrossOas(age) ==
    12 * (IF age >= 75 THEN OAS_MAX_MONTHLY_75_PLUS ELSE OAS_MAX_MONTHLY_2024)

\* 15% of the income above the threshold, at most the full OAS
ReferenceClawback(income, age) ==
    IF income <= OAS_CLAWBACK_THRESHOLD_2024 THEN 0
    ELSE Min(MulDiv(income - OAS_CLAWBACK_THRESHOLD_2024, OAS_CLAWBACK_RATE, 100),
             GrossOas(age))

\* incomes around the threshold and around the incomes at which the clawback
\* reaches the full OAS of either age band
ClawbackIncomes ==
    {0, Dollars(5000000)}
    \cup { OAS_CLAWBACK_THRESHOLD_2024 + d :
             d \in {-1, 0, 1, Dollars(1000), Dollars(57067), Dollars(57068),
                    Dollars(62773), Dollars(62774)} }

\* C18: calculate_oas_clawback is 0 up to the threshold and above it 15% of
\* the excess, at most the full OAS of the age band; the OAS income of every
\* projection is between 0 and the full OAS of its age; and in a retirement
\* year from the OAS start age on it is the full OAS less the clawback on
\* mandatory withdrawal + CPP + pension total, a base without the OAS itself
\* (and without the further withdrawals of the year).
C18_OasClawbackBounded ==
    /\ \A income \in ClawbackIncomes : \A age \in {65, 74, 75, 100} :
          /\ calculate_oas_clawback(income, age) = ReferenceClawback(income, age)
          /\ calculate_oas_clawback(income, age) >= 0
          /\ calculate_oas_clawback(income, age) <= GrossOas(age)
    /\ \A i \in DOMAIN iterations :
          LET age == iterations[i].age
              base == iterations[i].mandatory_withdrawal
                      + projections[i].cpp_income
                      + iterations[i].pension_income
          IN  /\ projections[i].oas_income >= 0
              /\ projections[i].oas_income <= GrossOas(age)
              /\ projections[i].oas_income =
                    IF IsRetirementIteration(i) /\ age >= plan_input.oas_start_age
                    THEN GrossOas(age) - ReferenceClawback(base, age)
                    ELSE 0

\* a call in which the OAS of one year was clawed back in part and that of
\* another year in full
C18_Witness ==
    /\ \E i \in DOMAIN iterations :
          /\ iterations[i].age >= plan_input.oas_start_age
          /\ projections[i].oas_income > 0
          /\ projections[i].oas_income < GrossOas(iterations[i].age)
    /\ \E i \in DOMAIN iterations :
          /\ iterations[i].age >= plan_input.oas_start_age
          /\ IsRetirementIteration(i)
          /\ projections[i].oas_income = 0

\* C20: in every year at the age of 100 or more the mandatory withdrawal is
\* the whole RRSP/RRIF balance the year started with, spouse or not, and the
\* projection of the year has an RRSP/RRIF balance of 0.
C20_FullWithdrawalFrom100 ==
    \A i \in DOMAIN iterations :
        iterations[i].age >= 100 =>
            /\ IsRetirementIteration(i)
            /\ iterations[i].mandatory_withdrawal = iterations[i].start_rrsp
            /\ projections[i].rrif_withdrawal = iterations[i].start_rrsp
            /\ projections[i].rrsp_rrif_balance = 0

\* a returned plan with a younger spouse that still held RRSP/RRIF money at
\* the start of the year of age 100
C20_Witness ==
    /\ pc = "returned"
    /\ plan_input.has_spouse
    /\ \E i \in DOMAIN iterations :
          /\ iterations[i].age = 100
          /\ iterations[i].withdrawal_age = 100
          /\ iterations[i].start_rrsp > 0
          /\ projections[i].rrsp_rrif_balance = 0

\* C21 as stated: no projection of an age below 72 reports a non-zero
\* rrif_withdrawal, and the projection of age 72 of a year that started with
\* a positive RRSP/RRIF balance reports rrif_withdrawal > 0.
C21_RrifWithdrawalStartsAt72 ==
    \A i \in DOMAIN iterations :
        /\ iterations[i].age < RRIF_MINIMUM_START_AGE
              => projections[i].rrif_withdrawal = 0
        /\ (iterations[i].age = RRIF_MINIMUM_START_AGE
            /\ iterations[i].start_rrsp > 0)
              => projections[i].rrif_withdrawal > 0

\* C21, amended: no year of an age below 72 has a mandatory withdrawal; the
\* rrif_withdrawal its projection reports is the further RRSP withdrawal
\* that covers a spending shortfall, made only once the TFSA and the
\* non-registered account are empty, and 0 otherwise.  The projection of a
\* retirement year of age 72 that started with a positive RRSP/RRIF balance
\* reports rrif_withdrawal > 0.
C21_MandatoryWithdrawalStartsAt72 ==
    \A i \in DOMAIN iterations :
        /\ iterations[i].age < RRIF_MINIMUM_START_AGE =>
              /\ iterations[i].mandatory_withdrawal = 0
              /\ projections[i].rrif_withdrawal
                    = iterations[i].rrsp_additional_withdrawal
              /\ projections[i].rrif_withdrawal > 0 =>
                    /\ IsRetirementIteration(i)
                    /\ projections[i].gross_income < projections[i].spending
                    /\ iterations[i].tfsa_after_spending = 0
                    /\ iterations[i].non_reg_after_spending = 0
        /\ (/\ IsRetirementIteration(i)
            /\ iterations[i].age = RRIF_MINIMUM_START_AGE
            /\ iterations[i].start_rrsp > 0)
              => /\ iterations[i].mandatory_withdrawal > 0
                 /\ projections[i].rrif_withdrawal > 0

\* a retired holder whose year of age 71 reports no RRIF withdrawal on a
\* positive balance and whose year of age 72 reports the first one
C21_Witness ==
    \E i \in DOMAIN iterations :
        /\ i + 1 \in DOMAIN iterations
        /\ IsRetirementIteration(i)
        /\ iterations[i].age = 71
        /\ iterations[i].start_rrsp > 0
        /\ projections[i].rrif_withdrawal = 0
        /\ iterations[i + 1].age = 72
        /\ projections[i + 1].rrif_withdrawal > 0
        /\ projections[i + 1].rrif_withdrawal = iterations[i + 1].mandatory_withdrawal

\* C22 as stated: in a plan with a positive monthly CPP benefit, every
\* projection of an age below cpp_start_age reports cpp_income = 0 and every
\* projection of an age from cpp_start_age on reports 12 times the
\* age-adjusted monthly amount, which is positive.
C22_CppStartsAtStartAge ==
    plan_input.cpp_monthly > 0 =>
        \A i \in DOMAIN projections :
            IF projections[i].age < plan_input.cpp_start_age
            THEN projections[i].cpp_income = 0
            ELSE /\ projections[i].cpp_income = 12 * adjusted_cpp
                 /\ projections[i].cpp_income > 0

\* C22, amended: in a plan with a positive monthly CPP benefit, every
\* projection of a retirement year of an age from cpp_start_age on reports
\* 12 times the age-adjusted monthly amount, which is positive; every
\* projection of an age below cpp_start_age and every projection of an
\* accumulation year reports cpp_income = 0.
C22_CppStartsAtStartAgeOnceRetired ==
    plan_input.cpp_monthly > 0 =>
        \A i \in DOMAIN iterations :
            IF IsRetirementIteration(i)
               /\ projections[i].age >= plan_input.cpp_start_age
            THEN /\ projections[i].cpp_income = 12 * adjusted_cpp
                 /\ projections[i].cpp_income > 0
            ELSE projections[i].cpp_income = 0

\* a retired holder with no CPP the year before the start age and the
\* reduced-to-normal amount, 12 x 1200, in the year of the start age
C22_Witness ==
    /\ plan_input.cpp_monthly = Dollars(1200)
    /\ plan_input.cpp_start_age = 65
    /\ \E i \in DOMAIN iterations :
          /\ i + 1 \in DOMAIN iterations
          /\ IsRetirementIteration(i)
          /\ projections[i].age = 64
          /\ projections[i].cpp_income = 0
          /\ projections[i + 1].age = 65
          /\ projections[i + 1].cpp_income = Dollars(14400)

\* what the gross income of retirement year i leaves after the spending and
\* the estimated tax
Surplus(i) ==
    projections[i].gross_income - projections[i].spending
        - projections[i].taxes_estimated

\* C23: in a retirement year whose gross income exceeds the spending plus
\* the estimated tax, nothing is withdrawn from any account beyond the
\* mandatory withdrawal, and the surplus is credited to the non-registered
\* account: its ending balance, proceeds of sales aside, is at least its
\* grown starting balance plus the surplus (grown or not).
C23_SurplusCreditedToNonRegistered ==
    \A i \in DOMAIN iterations :
        (IsRetirementIteration(i) /\ Surplus(i) > 0) =>
            /\ projections[i].other_withdrawals = 0
            /\ projections[i].tfsa_balance
                  = Grow(iterations[i].start_tfsa, plan_input.tfsa_real_return)
            /\ projections[i].non_registered_balance - iterations[i].sale_proceeds
                  >= Grow(iterations[i].start_non_reg, plan_input.non_reg_real_return)
                     + Min(Surplus(i), Grow(Surplus(i), plan_input.non_reg_real_return))

\* the income streams of a plan, pensions and additional income alike
StreamsOf(plan) == plan.pensions \o plan.additional_income

\* what the streams added to the gross income of year i
StreamContribution(i) ==
    projections[i].gross_income - iterations[i].mandatory_withdrawal
        - projections[i].cpp_income - projections[i].oas_income

\* C24: in a plan whose only income stream has an end year, the stream
\* adds its annual amount to the gross income of every retirement year whose
\* stream year (start_year + year index) is at most end_year and nothing in
\* any later year; without indexing, the gross income of the first year
\* after end_year is 12 x monthly_amount below that of the end year when the
\* rest of the income is the same in both.
C24_StreamStopsAfterEndYear ==
    (Len(StreamsOf(plan_input)) = 1 /\ StreamsOf(plan_input)[1].end_year # 0) =>
        LET s == StreamsOf(plan_input)[1]
        IN  /\ \A i \in DOMAIN iterations :
                  IsRetirementIteration(i) =>
                      StreamContribution(i) =
                          IF s.start_year + iterations[i].year <= s.end_year
                          THEN 12 * Compound(s.monthly_amount, s.indexing_rate,
                                             iterations[i].year)
                          ELSE 0
            /\ \A i \in DOMAIN iterations :
                  (/\ i + 1 \in DOMAIN iterations
                   /\ IsRetirementIteration(i)
                   /\ s.start_year + iterations[i].year = s.end_year
                   /\ s.indexing_rate = 0
                   /\ projections[i + 1].gross_income - StreamContribution(i + 1)
                         = projections[i].gross_income - StreamContribution(i))
                  => projections[i].gross_income - projections[i + 1].gross_income
                         = 12 * s.monthly_amount

\* the plan without its spouse
WithoutSpouse(plan) == [plan EXCEPT !.has_spouse = FALSE, !.spouse_age = 0]

\* balance x factor(age), for an age the factor is defined at
FactorWithdrawal(balance, age) ==
    calculate_rrif_minimum_withdrawal(balance, age).value

\* the mandatory withdrawal of year i had the plan no spouse, on the balance
\* year i started with
WithdrawalWithoutSpouse(i) ==
    MandatoryWithdrawal(WithoutSpouse(plan_input), iterations[i].age,
                        iterations[i].start_rrsp).value

C26_TaxableIncomeExcludesTaxFreeDraws ==
    \A i \in DOMAIN iterations :
        IsRetirementIteration(i) =>
            LET taxable == projections[i].gross_income
                           + iterations[i].rrsp_additional_withdrawal
            IN  /\ projections[i].gross_income
                      = iterations[i].mandatory_withdrawal + projections[i].cpp_income
                        + projections[i].oas_income + iterations[i].pension_income
                /\ iterations[i].taxable_income = taxable
                /\ taxable = projections[i].rrif_withdrawal + projections[i].cpp_income
                             + projections[i].oas_income + iterations[i].pension_income
                /\ plan_input.tax_calculation_mode = "simplified" =>
                      /\ projections[i].taxes_estimated = MulDiv(taxable, 25, 100)
                      /\ 4 * projections[i].taxes_estimated <= taxable
                      /\ 4 * projections[i].taxes_estimated > taxable - 4
                /\ plan_input.tax_calculation_mode = "accurate" =>
                      projections[i].taxes_estimated =
                          IF taxable <= 0 THEN 0
                          ELSE calculate_canadian_tax(taxable, plan_input.province).total_tax

\* a simplified-mode year whose shortfall was drawn from the TFSA, the
\* non-registered account and the RRSP/RRIF, taxed on the RRSP/RRIF part only
C26_Witness ==
    /\ plan_input.tax_calculation_mode = "simplified"
    /\ \E i \in DOMAIN iterations :
          /\ IsRetirementIteration(i)
          /\ iterations[i].tfsa_withdrawal > 0
          /\ iterations[i].non_reg_withdrawal > 0
          /\ iterations[i].rrsp_additional_withdrawal > 0
          /\ projections[i].gross_income > 0
          /\ iterations[i].taxable_income
                = projections[i].gross_income + iterations[i].rrsp_additional_withdrawal
          /\ 4 * projections[i].taxes_estimated = iterations[i].taxable_income

\* the accumulation iterations of the call so far
AccumulationIterations ==
    { i \in DOMAIN iterations : iterations[i].phase = "accumulation" }

\* C27: in every accumulation year 70% of 12 x monthly_contribution is
\* added to the RRSP/RRIF balance and 30% to the TFSA balance, nothing to
\* the non-registered balance, and each balance is then multiplied by
\* 1 + its own real return; the projection of the year reports 0 in every
\* income, withdrawal and tax field.  The total_contributions of the output
\* is 12 x monthly_contribution x the number of accumulation years.
C27_AccumulationYear ==
    /\ \A i \in AccumulationIterations :
          LET annual_contribution == 12 * plan_input.monthly_contribution
          IN  /\ projections[i].rrsp_rrif_balance =
                    Grow(iterations[i].start_rrsp + MulDiv(annual_contribution, 70, 100),
                         plan_input.rrsp_real_return)
              /\ projections[i].tfsa_balance =
                    Grow(iterations[i].start_tfsa + MulDiv(annual_contribution, 30, 100),
                         plan_input.tfsa_real_return)
              /\ projections[i].non_registered_balance =
                    Grow(iterations[i].start_non_reg, plan_input.non_reg_real_return)
              /\ projections[i].rrif_withdrawal = 0
              /\ projections[i].cpp_income = 0
              /\ projections[i].oas_income = 0
              /\ projections[i].other_withdrawals = 0
              /\ projections[i].gross_income = 0
              /\ projections[i].taxes_estimated = 0
              /\ projections[i].net_income = 0
    /\ total_contributions
          = 12 * plan_input.monthly_contribution * Cardinality(AccumulationIterations)
    /\ pc = "returned" =>
          /\ Cardinality(AccumulationIterations)
                = plan_input.retirement_age - plan_input.current_age
          /\ result[1].total_contributions
                = 12 * plan_input.monthly_contribution
                  * (plan_input.retirement_age - plan_input.current_age)

\* a returned plan of a saver of 1000 a month over three accumulation years
\* on balances that earn different returns
C27_Witness ==
    /\ pc = "returned"
    /\ plan_input.monthly_contribution = Dollars(1000)
    /\ Cardinality(AccumulationIterations) = 3
    /\ result[1].total_contributions = Dollars(36000)
    /\ \E i \in AccumulationIterations :
          /\ iterations[i].start_rrsp > 0 /\ iterations[i].start_non_reg > 0
          /\ projections[i].rrsp_rrif_balance
                = Grow(iterations[i].start_rrsp + Dollars(8400), 200)
          /\ projections[i].tfsa_balance
                = Grow(iterations[i].start_tfsa + Dollars(3600), 400)

\* what year i had withdrawn from the accounts before the tax was computed:
\* the mandatory withdrawal and the withdrawals that cover the spending
FundsWithdrawn(i) ==
    iterations[i].mandatory_withdrawal + iterations[i].tfsa_withdrawal
        + iterations[i].non_reg_withdrawal
        + iterations[i].rrsp_additional_withdrawal

\* what year i has in hand once the spending is paid: the gross income and
\* the withdrawals that cover the spending, less the spending
CashAfterSpending(i) ==
    projections[i].gross_income + iterations[i].tfsa_withdrawal
        + iterations[i].non_reg_withdrawal
        + iterations[i].rrsp_additional_withdrawal - projections[i].spending

\* C28: in a retirement year whose estimated tax does not exceed the funds
\* already withdrawn that year, the tax step takes nothing from the TFSA and
\* nothing from the non-registered account.  The funds already withdrawn
\* are read both ways at once: the tax is at most what was taken out of the
\* accounts, and at most what is left in hand after the spending.
C28_TaxDrawsOnlyWhenTaxExceedsWithdrawn ==
    \A i \in DOMAIN iterations :
        (/\ IsRetirementIteration(i)
         /\ projections[i].taxes_estimated <= FundsWithdrawn(i)
         /\ projections[i].taxes_estimated <= CashAfterSpending(i)) =>
            /\ iterations[i].tfsa_tax_withdrawal = 0
            /\ iterations[i].non_reg_tax_withdrawal = 0

\* C29: in every retirement year the ending RRSP/RRIF balance is the
\* starting balance less the mandatory and the further withdrawal, times
\* 1 + its return; the ending TFSA balance is the starting balance less the
\* spending and the tax withdrawal, times 1 + its return; the ending
\* non-registered balance is the same of its own, plus the sale proceeds of
\* the year, which earn no return; and what left the three accounts before
\* the returns is the mandatory withdrawal plus other_withdrawals.
C29_EndingBalances ==
    \A i \in DOMAIN iterations :
        IsRetirementIteration(i) =>
            LET rrsp_out == iterations[i].mandatory_withdrawal
                            + iterations[i].rrsp_additional_withdrawal
                tfsa_out == iterations[i].tfsa_withdrawal
                            + iterations[i].tfsa_tax_withdrawal
                non_reg_out == iterations[i].non_reg_withdrawal
                               + iterations[i].non_reg_tax_withdrawal
            IN  /\ projections[i].rrsp_rrif_balance =
                      Grow(iterations[i].start_rrsp - rrsp_out,
                           plan_input.rrsp_real_return)
                /\ projections[i].tfsa_balance =
                      Grow(iterations[i].start_tfsa - tfsa_out,
                           plan_input.tfsa_real_return)
                /\ projections[i].non_registered_balance =
                      Grow(iterations[i].start_non_reg - non_reg_out,
                           plan_input.non_reg_real_return)
                      + iterations[i].sale_proceeds
                /\ rrsp_out + tfsa_out + non_reg_out
                      = iterations[i].mandatory_withdrawal
                        + projections[i].other_withdrawals
                /\ projections[i].rrif_withdrawal = rrsp_out

\* a year with a mandatory withdrawal, a TFSA withdrawal for the spending,
\* a non-registered withdrawal for the tax and a property sale, on accounts
\* with returns of 2%, 4% and 5%
C29_Witness ==
    /\ plan_input.rrsp_real_return = 200
    /\ plan_input.tfsa_real_return = 400
    /\ plan_input.non_reg_real_return = 500
    /\ \E i \in DOMAIN iterations :
          /\ IsRetirementIteration(i)
          /\ iterations[i].mandatory_withdrawal > 0
          /\ iterations[i].tfsa_withdrawal > 0
          /\ iterations[i].non_reg_tax_withdrawal > 0
          /\ iterations[i].sale_proceeds > 0
          /\ projections[i].non_registered_balance > iterations[i].sale_proceeds

\* C30: generate_scenarios returns as many scenarios as
\* estimate_scenario_count announces, 2 to the number of enabled range
\* fields.
C30_GeneratedCountIsEstimate ==
    gen_pc = "done" => Len(generated) = estimate_scenario_count(batch_input)

====
